---- MODULE Spec2Model ----
(***************************************************************************)
(* Model of mdu (src/mdu): a disk-usage tool that walks each top-level     *)
(* path with a pool of worker threads sharing one mutex-guarded context.   *)
(*                                                                         *)
(* A path is a sequence of name components; "dir/name" is the sequence     *)
(* with one more component.  The file system is the fixed, unmodified tree *)
(*     .  { a, b { c } }                                                   *)
(* whose per-node block counts are distinct powers of two, so that a sum   *)
(* of block counts identifies the multiset of nodes that were measured.    *)
(***************************************************************************)
EXTENDS Integers, Sequences, FiniteSets, TLC

\* ---------------------------------------------------------------- bounds

\* Largest single-digit worker count among the drawn -j arguments.
MaxThreads == 2
\* Largest number of positional (top-level path) arguments.
MaxPaths == 2
\* Largest number of options on the command line.
MaxOpts == 1
\* BlockSpec: largest raw byte total, largest st_blocks, most additions.
MaxBytes == 1030
MaxStBlocks == 2
MaxAdds == 2
\* QueueSpec: enqueue and dequeue calls made on one queue
MaxQueueOps == 5

\* ------------------------------------------------------ program constants

EXIT_SUCCESS == 0
EXIT_FAILURE == 1
\* bytes per st_blocks unit (worker.c:119) and per printed block (mdu.c:99)
BlockSize == 512

NULL == <<"NULL">>

\* -------------------------------------------------------------- the tree

\* "a" is a symbolic link to the directory "b"; "c" is a regular file.
FS ==
    (<<".">>           :> [st_mode |-> "dir", st_blocks |-> 8,
                           entries |-> <<".", "..", "a", "b">>,
                           target |-> NULL]) @@
    (<<".", "a">>      :> [st_mode |-> "lnk", st_blocks |-> 1, entries |-> <<>>,
                           target |-> <<".", "b">>]) @@
    (<<".", "b">>      :> [st_mode |-> "dir", st_blocks |-> 4,
                           entries |-> <<".", "..", "c">>,
                           target |-> NULL]) @@
    (<<".", "b", "c">> :> [st_mode |-> "reg", st_blocks |-> 2, entries |-> <<>>,
                           target |-> NULL])

\* Positional arguments the command line may carry; <<"x">> does not exist.
\* The whole tree is traversed when no argument is given (the default ".").
TopPaths == {<<".", "b">>, <<"x">>}
\* Nodes whose lstat may be refused, directories whose opendir may be refused.
StatFailCandidates == {<<".", "b", "c">>}
ReadFailCandidates == {<<".", "b">>}

Workers == 1..MaxThreads

VARIABLES
    \* environment: which queries fail during this run (fixed for the run)
    stat_fail, read_fail,
    \* main (mdu.c)
    opts,        \* options getopt has not scanned yet
    args,        \* positional arguments argv[optind..]
    optarg,      \* getopt's optarg: argument of the last -j scanned, or NULL
    num_threads, exit_code, paths, i, t, mainpc,
    status,      \* exit status of the process once it has ended
    data,        \* struct ThreadData of the current top-level path
    \* threads (worker.c)
    mutex,       \* 0 when free, else the worker holding data->mutex
    pc, w_path, w_st, w_error, w_paths,
    \* output
    stdout, stderr,
    \* BlockSpec state (byte/block arithmetic on its own)
    cv,
    \* QueueSpec state (the linked list of thread.c on its own)
    qv,
    \* ExecSpec state (mexec: the parent, its pipes and its children)
    xv,
    \* MakeSpec state (mmake: the call stack, the files and the commands run)
    mv

envvars  == <<stat_fail, read_fail>>
mainvars == <<opts, args, optarg, num_threads, exit_code, paths, i, t, mainpc, status>>
wvars    == <<mutex, pc, w_path, w_st, w_error, w_paths>>
outvars  == <<stdout, stderr>>
vars     == <<envvars, mainvars, data, wvars, outvars, cv, qv, xv, mv>>

\* --------------------------------------------------------- pure functions

RECURSIVE SeqsUpTo(_, _)
SeqsUpTo(S, n) ==
    IF n = 0 THEN {<<>>}
    ELSE LET shorter == SeqsUpTo(S, n - 1)
         IN  shorter \cup {Append(s, x) : s \in shorter, x \in S}

DigitChars == <<"0", "1", "2", "3", "4", "5", "6", "7", "8", "9">>

IsDigit(c) == \E d \in 1..10 : DigitChars[d] = c

DigitVal(c) == (CHOOSE d \in 1..10 : DigitChars[d] = c) - 1

RECURSIVE SkipSpace(_)
SkipSpace(s) == IF s # <<>> /\ Head(s) = " " THEN SkipSpace(Tail(s)) ELSE s

RECURSIVE ParseDigits(_, _)
ParseDigits(s, acc) ==
    IF s = <<>> \/ ~IsDigit(Head(s)) THEN acc
    ELSE ParseDigits(Tail(s), acc * 10 + DigitVal(Head(s)))

\* atoi(3): leading blanks, an optional sign, then the leading digits; 0 if none.
AtoiNonNumericOne(s) ==
    LET r == SkipSpace(s)
    IN  IF r = <<>> \/ ~IsDigit(Head(r)) THEN 1 ELSE ParseDigits(r, 0)

Atoi(s) ==
    LET r == SkipSpace(s)
    IN  IF r = <<>> THEN 0
        ELSE IF Head(r) = "-" THEN 0 - ParseDigits(Tail(r), 0)
        ELSE IF Head(r) = "+" THEN ParseDigits(Tail(r), 0)
        ELSE ParseDigits(r, 0)

\* handle_file: off_t size = st->st_blocks * 512
StSize(st_blocks) == st_blocks * BlockSize

\* main: long total_blocks = (data->total_size + 511) / 512
TotalBlocksTruncated(total_size) == total_size \div BlockSize

TotalBlocks(total_size) == (total_size + (BlockSize - 1)) \div BlockSize

\* construct_path: "%s/%s"
ConstructPath(dir_path, entry_name) == Append(dir_path, entry_name)

\* thread_data_init: memset 0, then every field reset
ThreadDataInitStale(d) ==
    [d EXCEPT !.queue = <<>>, !.pending = 0]

ThreadDataInit(d) ==
    [queue |-> <<>>, total_size |-> 0, pending |-> 0, done |-> 0,
     error_occurred |-> 0]

\* enqueue: append a node at the tail
Enqueue(d, path) == [d EXCEPT !.queue = Append(@, path)]

RECURSIVE EnqueueAll(_, _)
EnqueueAll(d, ps) ==
    IF ps = <<>> THEN d ELSE EnqueueAll(Enqueue(d, Head(ps)), Tail(ps))

\* dequeue: the head's path, or NULL on an empty queue
DequeuePath(d) == IF d.queue = <<>> THEN NULL ELSE Head(d.queue)

DequeueKeepsHead(d) == d

Dequeue(d) == IF d.queue = <<>> THEN d ELSE [d EXCEPT !.queue = Tail(@)]

\* lstat(2) on the unmodified tree
LstatFails(path) == path \notin DOMAIN FS \/ path \in stat_fail

NoStat == [st_mode |-> "none", st_blocks |-> 0]

LstatFollows(path) ==
    LET p == IF FS[path].st_mode = "lnk" THEN FS[path].target ELSE path
    IN  [st_mode |-> FS[p].st_mode, st_blocks |-> FS[p].st_blocks]

Lstat(path) == [st_mode |-> FS[path].st_mode, st_blocks |-> FS[path].st_blocks]

\* opendir(3)
OpendirFails(path) == path \in read_fail

\* opendir follows a symbolic link: the directory whose entries it lists.
OpendirTarget(path) ==
    IF FS[path].st_mode = "lnk" THEN FS[path].target ELSE path

\* the readdir loop of handle_directory: skip "." and "..", build child paths
ReadEntriesAll(path, entries) ==
    [k \in 1..Len(entries) |-> ConstructPath(path, entries[k])]

RECURSIVE ReadEntries(_, _)
ReadEntries(path, entries) ==
    IF entries = <<>> THEN <<>>
    ELSE IF Head(entries) = "." \/ Head(entries) = ".."
         THEN ReadEntries(path, Tail(entries))
         ELSE <<ConstructPath(path, Head(entries))>>
              \o ReadEntries(path, Tail(entries))

\* ------------------------------------------------------------- the inputs

OptArgs ==
    {<<DigitChars[d + 1]>> : d \in 0..MaxThreads}
        \cup {<<"a">>, <<"-", "1">>, <<"1", "a">>}

Options ==
    {[opt |-> "j", arg |-> a] : a \in OptArgs} \cup {[opt |-> "?", arg |-> NULL]}

NoData == [queue |-> <<>>, total_size |-> 0, pending |-> 0, done |-> 0,
           error_occurred |-> 0]

CvOff == [pc |-> "off", total_size |-> 0, base |-> 0, added |-> 0, adds |-> 0,
          total_blocks |-> 0]

QvOff == [pc |-> "off"]

XvOff == [pc |-> "off"]

MvOff == [pc |-> "off"]

\* main's locals before its first statement; no context, no thread, no output.
MduStart ==
    /\ optarg = NULL
    /\ num_threads = 1
    /\ exit_code = EXIT_SUCCESS
    /\ paths = <<>>
    /\ i = 0
    /\ t = 0
    /\ status = -1
    /\ data = NoData
    /\ mutex = 0
    /\ pc = [w \in Workers |-> "idle"]
    /\ w_path = [w \in Workers |-> NULL]
    /\ w_st = [w \in Workers |-> NoStat]
    /\ w_error = [w \in Workers |-> 0]
    /\ w_paths = [w \in Workers |-> <<>>]
    /\ stdout = <<>>
    /\ stderr = <<>>

Init ==
    /\ stat_fail \in SUBSET StatFailCandidates
    /\ read_fail \in SUBSET ReadFailCandidates
    /\ opts \in SeqsUpTo(Options, MaxOpts)
    /\ args \in SeqsUpTo(TopPaths, MaxPaths)
    /\ mainpc = "getopt"
    /\ MduStart
    /\ cv = CvOff
    /\ qv = QvOff
    /\ xv = XvOff
    /\ mv = MvOff

\* ------------------------------------------------------------ main (mdu.c)

ProcessAlive == mainpc \notin {"exited", "returned", "off"}

\* getopt returned 'j': num_threads = atoi(optarg); a value < 1 is refused.
GetoptJ ==
    /\ mainpc = "getopt"
    /\ opts # <<>>
    /\ Head(opts).opt = "j"
    /\ optarg' = Head(opts).arg
    /\ opts' = Tail(opts)
    /\ num_threads' = Atoi(Head(opts).arg)
    /\ IF num_threads' < 1
       THEN /\ stderr' = Append(stderr, <<"invalid_threads", Head(opts).arg>>)
            /\ mainpc' = "exited"
            /\ status' = EXIT_FAILURE
       ELSE UNCHANGED <<stderr, mainpc, status>>
    /\ UNCHANGED <<envvars, args, exit_code, paths, i, t, data, wvars, stdout, cv, qv, xv, mv>>

\* getopt returned '?': usage message and exit.
GetoptUnknown ==
    /\ mainpc = "getopt"
    /\ opts # <<>>
    /\ Head(opts).opt # "j"
    /\ opts' = Tail(opts)
    /\ stderr' = Append(stderr, <<"usage", NULL>>)
    /\ mainpc' = "exited"
    /\ status' = EXIT_FAILURE
    /\ UNCHANGED <<envvars, args, optarg, num_threads, exit_code, paths, i, t,
                   data, wvars, stdout, cv, qv, xv, mv>>

\* getopt returned -1, then parse_paths: the positional arguments, or ".".
\* (The model's i counts paths from 1, the code's from 0.)
ParsePaths ==
    /\ mainpc = "getopt"
    /\ opts = <<>>
    /\ paths' = IF args = <<>> THEN << <<".">> >> ELSE args
    /\ i' = 1
    /\ mainpc' = "loop"
    /\ UNCHANGED <<envvars, opts, args, optarg, num_threads, exit_code, t, status,
                   data, wvars, outvars, cv, qv, xv, mv>>

\* One iteration's head: malloc + thread_data_init, pending = 1, enqueue(path).
\* malloc may hand back the block freed by the previous iteration, so the
\* initialiser is applied to the previous contents.
MainSeed ==
    /\ mainpc = "loop"
    /\ i <= Len(paths)
    /\ data' = Enqueue([ThreadDataInit(data) EXCEPT !.pending = 1], paths[i])
    /\ t' = 1
    /\ mainpc' = "spawn"
    /\ UNCHANGED <<envvars, opts, args, optarg, num_threads, exit_code, paths, i,
                   status, wvars, outvars, cv, qv, xv, mv>>

\* The loop is over: return exit_code.
MainReturn ==
    /\ mainpc = "loop"
    /\ i > Len(paths)
    /\ mainpc' = "returned"
    /\ status' = exit_code
    /\ UNCHANGED <<envvars, opts, args, optarg, num_threads, exit_code, paths, i, t,
                   data, wvars, outvars, cv, qv, xv, mv>>

\* start_worker_threads: pthread_create of thread t succeeds.
SpawnOk ==
    /\ mainpc = "spawn"
    /\ t <= num_threads
    /\ pc' = [pc EXCEPT ![t] = "lock"]
    /\ IF t = num_threads
       THEN mainpc' = "join" /\ t' = 1
       ELSE mainpc' = mainpc /\ t' = t + 1
    /\ UNCHANGED <<envvars, opts, args, optarg, num_threads, exit_code, paths, i,
                   status, data, mutex, w_path, w_st, w_error, w_paths, outvars, cv, qv, xv, mv>>

\* Wait status of a process ended by a signal (128 + SIGSEGV), as a shell
\* reports it.
Killed == 128 + 11

\* The statuses the process can end with when pthread_create fails: main calls
\* thread_data_destroy, free and exit(EXIT_FAILURE).  Threads created before
\* the failure are still running on the context main tears down, so the
\* teardown races with them and the process may be killed instead.
SpawnFailStatuses == IF t > 1 THEN {EXIT_FAILURE, Killed} ELSE {EXIT_FAILURE}

\* start_worker_threads: pthread_create fails; main exits at once.
SpawnFailIgnored ==
    /\ mainpc = "spawn"
    /\ t <= num_threads
    /\ stderr' = Append(stderr, <<"pthread_create", NULL>>)
    /\ mainpc' = "report"
    /\ status' = status
    /\ UNCHANGED <<envvars, opts, args, optarg, num_threads, exit_code, paths, i, t,
                   data, wvars, stdout, cv, qv, xv, mv>>

SpawnFail ==
    /\ mainpc = "spawn"
    /\ t <= num_threads
    /\ stderr' = Append(stderr, <<"pthread_create", NULL>>)
    /\ mainpc' = "exited"
    /\ status' \in SpawnFailStatuses
    /\ UNCHANGED <<envvars, opts, args, optarg, num_threads, exit_code, paths, i, t,
                   data, wvars, stdout, cv, qv, xv, mv>>

\* pthread_join(threads[t]) returns once thread t has ended.
JoinNoWait ==
    /\ mainpc = "join"
    /\ IF t = num_threads
       THEN mainpc' = "report" /\ t' = t
       ELSE mainpc' = mainpc /\ t' = t + 1
    /\ UNCHANGED <<envvars, opts, args, optarg, num_threads, exit_code, paths, i,
                   status, data, wvars, outvars, cv, qv, xv, mv>>

Join ==
    /\ mainpc = "join"
    /\ pc[t] = "exit"
    /\ IF t = num_threads
       THEN mainpc' = "report" /\ t' = t
       ELSE mainpc' = mainpc /\ t' = t + 1
    /\ UNCHANGED <<envvars, opts, args, optarg, num_threads, exit_code, paths, i,
                   status, data, wvars, outvars, cv, qv, xv, mv>>

\* After the joins: fold the error flag, print the line, free threads, destroy
\* and free the context (its queue nodes are freed; the rest is left as is).
ReportForgetful ==
    /\ mainpc = "report"
    /\ exit_code' = IF data.error_occurred # 0 THEN EXIT_FAILURE ELSE EXIT_SUCCESS
    /\ stdout' = Append(stdout, [blocks |-> TotalBlocks(data.total_size),
                                 path |-> paths[i]])
    /\ pc' = [w \in Workers |-> "idle"]
    /\ data' = [data EXCEPT !.queue = <<>>]
    /\ i' = i + 1
    /\ mainpc' = "loop"
    /\ UNCHANGED <<envvars, opts, args, optarg, num_threads, paths, t, status,
                   mutex, w_path, w_st, w_error, w_paths, stderr, cv, qv, xv, mv>>

ReportSkipsFailed ==
    /\ mainpc = "report"
    /\ exit_code' = IF data.error_occurred # 0 THEN EXIT_FAILURE ELSE exit_code
    /\ stdout' = IF data.error_occurred # 0 /\ data.total_size = 0
                 THEN stdout
                 ELSE Append(stdout, [blocks |-> TotalBlocks(data.total_size),
                                      path |-> paths[i]])
    /\ pc' = [w \in Workers |-> "idle"]
    /\ data' = [data EXCEPT !.queue = <<>>]
    /\ i' = i + 1
    /\ mainpc' = "loop"
    /\ UNCHANGED <<envvars, opts, args, optarg, num_threads, paths, t, status,
                   mutex, w_path, w_st, w_error, w_paths, stderr, cv, qv, xv, mv>>

Report ==
    /\ mainpc = "report"
    /\ exit_code' = IF data.error_occurred # 0 THEN EXIT_FAILURE ELSE exit_code
    /\ stdout' = Append(stdout, [blocks |-> TotalBlocks(data.total_size),
                                 path |-> paths[i]])
    /\ pc' = [w \in Workers |-> "idle"]
    /\ data' = [data EXCEPT !.queue = <<>>]
    /\ i' = i + 1
    /\ mainpc' = "loop"
    /\ UNCHANGED <<envvars, opts, args, optarg, num_threads, paths, t, status,
                   mutex, w_path, w_st, w_error, w_paths, stderr, cv, qv, xv, mv>>

MainNext ==
    \/ GetoptJ
    \/ GetoptUnknown
    \/ ParsePaths
    \/ MainSeed
    \/ MainReturn
    \/ SpawnOk
    \/ SpawnFail
    \/ Join
    \/ Report

\* ------------------------------------------------------ workers (worker.c)

\* Where a thread stands after pthread_mutex_lock returns, by where it called it.
AfterLock ==
    [lock |-> "check", relock |-> "check", hf_lock |-> "hf", hde_lock |-> "hde",
     hd_lock |-> "hd", ues_lock |-> "ues"]

\* pthread_mutex_lock (and the re-acquisition inside pthread_cond_wait).
MutexLock(w) ==
    /\ ProcessAlive
    /\ pc[w] \in DOMAIN AfterLock
    /\ mutex = 0
    /\ mutex' = w
    /\ pc' = [pc EXCEPT ![w] = AfterLock[pc[w]]]
    /\ UNCHANGED <<envvars, mainvars, data, w_path, w_st, w_error, w_paths,
                   outvars, cv, qv, xv, mv>>

\* pthread_cond_broadcast: every thread blocked in pthread_cond_wait is woken.
CondBroadcast(pcs) ==
    [w \in Workers |-> IF pcs[w] = "wait" THEN "relock" ELSE pcs[w]]

\* worker_thread: queue empty and not done: pthread_cond_wait releases the mutex.
CondWaitIgnoresDone(w) ==
    /\ ProcessAlive
    /\ pc[w] = "check"
    /\ data.queue = <<>>
    /\ mutex' = 0
    /\ pc' = [pc EXCEPT ![w] = "wait"]
    /\ UNCHANGED <<envvars, mainvars, data, w_path, w_st, w_error, w_paths,
                   outvars, cv, qv, xv, mv>>

CondWait(w) ==
    /\ ProcessAlive
    /\ pc[w] = "check"
    /\ data.queue = <<>>
    /\ data.done = 0
    /\ mutex' = 0
    /\ pc' = [pc EXCEPT ![w] = "wait"]
    /\ UNCHANGED <<envvars, mainvars, data, w_path, w_st, w_error, w_paths,
                   outvars, cv, qv, xv, mv>>

\* pthread_cond_wait may return without any broadcast.
SpuriousWakeup(w) ==
    /\ ProcessAlive
    /\ pc[w] = "wait"
    /\ pc' = [pc EXCEPT ![w] = "relock"]
    /\ UNCHANGED <<envvars, mainvars, data, mutex, w_path, w_st, w_error, w_paths,
                   outvars, cv, qv, xv, mv>>

\* worker_thread: queue empty and done: unlock and pthread_exit.
WorkerExitOnEmpty(w) ==
    /\ ProcessAlive
    /\ pc[w] = "check"
    /\ data.queue = <<>>
    /\ mutex' = 0
    /\ pc' = [pc EXCEPT ![w] = "exit"]
    /\ UNCHANGED <<envvars, mainvars, data, w_path, w_st, w_error, w_paths,
                   outvars, cv, qv, xv, mv>>

WorkerExit(w) ==
    /\ ProcessAlive
    /\ pc[w] = "check"
    /\ data.queue = <<>>
    /\ data.done # 0
    /\ mutex' = 0
    /\ pc' = [pc EXCEPT ![w] = "exit"]
    /\ UNCHANGED <<envvars, mainvars, data, w_path, w_st, w_error, w_paths,
                   outvars, cv, qv, xv, mv>>

\* worker_thread: path = dequeue(data); unlock; process_path(path) follows.
WorkerDequeueDecrements(w) ==
    /\ ProcessAlive
    /\ pc[w] = "check"
    /\ data.queue # <<>>
    /\ w_path' = [w_path EXCEPT ![w] = DequeuePath(data)]
    /\ data' = [Dequeue(data) EXCEPT !.pending = @ - 1]
    /\ mutex' = 0
    /\ pc' = [pc EXCEPT ![w] = "lstat"]
    /\ UNCHANGED <<envvars, mainvars, w_st, w_error, w_paths, outvars, cv, qv, xv, mv>>

WorkerDequeueKeepsLock(w) ==
    /\ ProcessAlive
    /\ pc[w] = "check"
    /\ data.queue # <<>>
    /\ w_path' = [w_path EXCEPT ![w] = DequeuePath(data)]
    /\ data' = Dequeue(data)
    /\ mutex' = mutex
    /\ pc' = [pc EXCEPT ![w] = "lstat"]
    /\ UNCHANGED <<envvars, mainvars, w_st, w_error, w_paths, outvars, cv, qv, xv, mv>>

WorkerDequeue(w) ==
    /\ ProcessAlive
    /\ pc[w] = "check"
    /\ data.queue # <<>>
    /\ w_path' = [w_path EXCEPT ![w] = DequeuePath(data)]
    /\ data' = Dequeue(data)
    /\ mutex' = 0
    /\ pc' = [pc EXCEPT ![w] = "lstat"]
    /\ UNCHANGED <<envvars, mainvars, w_st, w_error, w_paths, outvars, cv, qv, xv, mv>>

\* process_path: lstat(path, &st), no lock held.
ProcessPathLstatSkipsDecrement(w) ==
    /\ ProcessAlive
    /\ pc[w] = "lstat"
    /\ IF LstatFails(w_path[w])
       THEN /\ stderr' = Append(stderr, <<"cannot access", w_path[w]>>)
            /\ w_error' = [w_error EXCEPT ![w] = 1]
            /\ pc' = [pc EXCEPT ![w] = "lock"]
            /\ UNCHANGED w_st
       ELSE /\ w_st' = [w_st EXCEPT ![w] = Lstat(w_path[w])]
            /\ w_error' = [w_error EXCEPT ![w] = 0]
            /\ pc' = [pc EXCEPT ![w] = "hf_lock"]
            /\ UNCHANGED stderr
    /\ UNCHANGED <<envvars, mainvars, data, mutex, w_path, w_paths, stdout, cv, qv, xv, mv>>

ProcessPathLstatNoLock(w) ==
    /\ ProcessAlive
    /\ pc[w] = "lstat"
    /\ IF LstatFails(w_path[w])
       THEN /\ stderr' = Append(stderr, <<"cannot access", w_path[w]>>)
            /\ w_error' = [w_error EXCEPT ![w] = 1]
            /\ pc' = [pc EXCEPT ![w] = "ues_lock"]
            /\ UNCHANGED w_st
       ELSE /\ w_st' = [w_st EXCEPT ![w] = Lstat(w_path[w])]
            /\ w_error' = [w_error EXCEPT ![w] = 0]
            /\ pc' = [pc EXCEPT ![w] = "hf"]
            /\ UNCHANGED stderr
    /\ UNCHANGED <<envvars, mainvars, data, mutex, w_path, w_paths, stdout, cv, qv, xv, mv>>

ProcessPathLstat(w) ==
    /\ ProcessAlive
    /\ pc[w] = "lstat"
    /\ IF LstatFails(w_path[w])
       THEN /\ stderr' = Append(stderr, <<"cannot access", w_path[w]>>)
            /\ w_error' = [w_error EXCEPT ![w] = 1]
            /\ pc' = [pc EXCEPT ![w] = "ues_lock"]
            /\ UNCHANGED w_st
       ELSE /\ w_st' = [w_st EXCEPT ![w] = Lstat(w_path[w])]
            /\ w_error' = [w_error EXCEPT ![w] = 0]
            /\ pc' = [pc EXCEPT ![w] = "hf_lock"]
            /\ UNCHANGED stderr
    /\ UNCHANGED <<envvars, mainvars, data, mutex, w_path, w_paths, stdout, cv, qv, xv, mv>>

\* handle_file: data->total_size += size under the lock; then, for a directory,
\* handle_directory, else update_error_status.
HandleFileTwice(w) ==
    /\ ProcessAlive
    /\ pc[w] = "hf"
    /\ data' = [data EXCEPT !.total_size = @ + 2 * StSize(w_st[w].st_blocks)]
    /\ mutex' = 0
    /\ pc' = [pc EXCEPT ![w] = IF w_st[w].st_mode = "dir" THEN "opendir"
                                                          ELSE "ues_lock"]
    /\ UNCHANGED <<envvars, mainvars, w_path, w_st, w_error, w_paths, outvars, cv, qv, xv, mv>>

HandleFile(w) ==
    /\ ProcessAlive
    /\ pc[w] = "hf"
    /\ data' = [data EXCEPT !.total_size = @ + StSize(w_st[w].st_blocks)]
    /\ mutex' = 0
    /\ pc' = [pc EXCEPT ![w] = IF w_st[w].st_mode = "dir" THEN "opendir"
                                                          ELSE "ues_lock"]
    /\ UNCHANGED <<envvars, mainvars, w_path, w_st, w_error, w_paths, outvars, cv, qv, xv, mv>>

\* handle_directory: opendir, then the readdir loop, no lock held.
HandleDirectoryOpenSilent(w) ==
    /\ ProcessAlive
    /\ pc[w] = "opendir"
    /\ IF OpendirFails(w_path[w])
       THEN /\ stderr' = stderr
            /\ pc' = [pc EXCEPT ![w] = "hde_lock"]
            /\ UNCHANGED w_paths
       ELSE /\ w_paths' = [w_paths EXCEPT
                              ![w] = ReadEntries(w_path[w],
                                                 FS[OpendirTarget(w_path[w])].entries)]
            /\ pc' = [pc EXCEPT ![w] = "hd_lock"]
            /\ UNCHANGED stderr
    /\ UNCHANGED <<envvars, mainvars, data, mutex, w_path, w_st, w_error, stdout, cv, qv, xv, mv>>

HandleDirectoryOpen(w) ==
    /\ ProcessAlive
    /\ pc[w] = "opendir"
    /\ IF OpendirFails(w_path[w])
       THEN /\ stderr' = Append(stderr, <<"cannot read directory", w_path[w]>>)
            /\ pc' = [pc EXCEPT ![w] = "hde_lock"]
            /\ UNCHANGED w_paths
       ELSE /\ w_paths' = [w_paths EXCEPT
                              ![w] = ReadEntries(w_path[w],
                                                 FS[OpendirTarget(w_path[w])].entries)]
            /\ pc' = [pc EXCEPT ![w] = "hd_lock"]
            /\ UNCHANGED stderr
    /\ UNCHANGED <<envvars, mainvars, data, mutex, w_path, w_st, w_error, stdout, cv, qv, xv, mv>>

\* handle_directory, opendir failed: data->error_occurred = 1 under the lock.
HandleDirectoryErrorLost(w) ==
    /\ ProcessAlive
    /\ pc[w] = "hde"
    /\ mutex' = 0
    /\ pc' = [pc EXCEPT ![w] = "ues_lock"]
    /\ UNCHANGED <<envvars, mainvars, data, w_path, w_st, w_error, w_paths,
                   outvars, cv, qv, xv, mv>>

HandleDirectoryErrorUndoesSize(w) ==
    /\ ProcessAlive
    /\ pc[w] = "hde"
    /\ data' = [data EXCEPT !.error_occurred = 1,
                            !.total_size = @ - StSize(w_st[w].st_blocks)]
    /\ mutex' = 0
    /\ pc' = [pc EXCEPT ![w] = "ues_lock"]
    /\ UNCHANGED <<envvars, mainvars, w_path, w_st, w_error, w_paths, outvars, cv, qv, xv, mv>>

HandleDirectoryErrorSkipsDecrement(w) ==
    /\ ProcessAlive
    /\ pc[w] = "hde"
    /\ data' = [data EXCEPT !.error_occurred = 1]
    /\ mutex' = 0
    /\ pc' = [pc EXCEPT ![w] = "lock"]
    /\ UNCHANGED <<envvars, mainvars, w_path, w_st, w_error, w_paths, outvars, cv, qv, xv, mv>>

HandleDirectoryError(w) ==
    /\ ProcessAlive
    /\ pc[w] = "hde"
    /\ data' = [data EXCEPT !.error_occurred = 1]
    /\ mutex' = 0
    /\ pc' = [pc EXCEPT ![w] = "ues_lock"]
    /\ UNCHANGED <<envvars, mainvars, w_path, w_st, w_error, w_paths, outvars, cv, qv, xv, mv>>

\* handle_directory: under one lock, enqueue every child, pending += K,
\* broadcast, unlock.
HandleDirectoryEnqueueNoCount(w) ==
    /\ ProcessAlive
    /\ pc[w] = "hd"
    /\ data' = EnqueueAll(data, w_paths[w])
    /\ mutex' = 0
    /\ pc' = [CondBroadcast(pc) EXCEPT ![w] = "ues_lock"]
    /\ w_paths' = [w_paths EXCEPT ![w] = <<>>]
    /\ UNCHANGED <<envvars, mainvars, w_path, w_st, w_error, outvars, cv, qv, xv, mv>>

HandleDirectoryEnqueueNoWake(w) ==
    /\ ProcessAlive
    /\ pc[w] = "hd"
    /\ data' = [EnqueueAll(data, w_paths[w]) EXCEPT
                   !.pending = @ + Len(w_paths[w])]
    /\ mutex' = 0
    /\ pc' = [pc EXCEPT ![w] = "ues_lock"]
    /\ w_paths' = [w_paths EXCEPT ![w] = <<>>]
    /\ UNCHANGED <<envvars, mainvars, w_path, w_st, w_error, outvars, cv, qv, xv, mv>>

HandleDirectoryEnqueueAndDecrement(w) ==
    /\ ProcessAlive
    /\ pc[w] = "hd"
    /\ data' = [EnqueueAll(data, w_paths[w]) EXCEPT
                   !.pending = @ + Len(w_paths[w]) - 1]
    /\ mutex' = 0
    /\ pc' = [CondBroadcast(pc) EXCEPT ![w] = "lock"]
    /\ w_paths' = [w_paths EXCEPT ![w] = <<>>]
    /\ w_path' = [w_path EXCEPT ![w] = NULL]
    /\ w_st' = [w_st EXCEPT ![w] = NoStat]
    /\ UNCHANGED <<envvars, mainvars, w_error, outvars, cv, qv, xv, mv>>

HandleDirectoryEnqueue(w) ==
    /\ ProcessAlive
    /\ pc[w] = "hd"
    /\ data' = [EnqueueAll(data, w_paths[w]) EXCEPT
                   !.pending = @ + Len(w_paths[w])]
    /\ mutex' = 0
    /\ pc' = [CondBroadcast(pc) EXCEPT ![w] = "ues_lock"]
    /\ w_paths' = [w_paths EXCEPT ![w] = <<>>]
    /\ UNCHANGED <<envvars, mainvars, w_path, w_st, w_error, outvars, cv, qv, xv, mv>>

\* update_error_status: pending--, record the error, and on pending == 0 with
\* an empty queue set done and broadcast; then back to the top of the loop.
UpdateErrorStatusNoWake(w) ==
    /\ ProcessAlive
    /\ pc[w] = "ues"
    /\ LET d1 == [data EXCEPT !.pending = @ - 1,
                              !.error_occurred = IF w_error[w] # 0 THEN 1 ELSE @]
           fin == d1.pending = 0 /\ d1.queue = <<>>
       IN  /\ data' = IF fin THEN [d1 EXCEPT !.done = 1] ELSE d1
           /\ pc' = [pc EXCEPT ![w] = "lock"]
    /\ mutex' = 0
    /\ w_path' = [w_path EXCEPT ![w] = NULL]
    /\ w_st' = [w_st EXCEPT ![w] = NoStat]
    /\ w_error' = [w_error EXCEPT ![w] = 0]
    /\ UNCHANGED <<envvars, mainvars, w_paths, outvars, cv, qv, xv, mv>>

UpdateErrorStatusOverwrite(w) ==
    /\ ProcessAlive
    /\ pc[w] = "ues"
    /\ LET d1 == [data EXCEPT !.pending = @ - 1,
                              !.error_occurred = w_error[w]]
           fin == d1.pending = 0 /\ d1.queue = <<>>
       IN  /\ data' = IF fin THEN [d1 EXCEPT !.done = 1] ELSE d1
           /\ pc' = [(IF fin THEN CondBroadcast(pc) ELSE pc) EXCEPT ![w] = "lock"]
    /\ mutex' = 0
    /\ w_path' = [w_path EXCEPT ![w] = NULL]
    /\ w_st' = [w_st EXCEPT ![w] = NoStat]
    /\ w_error' = [w_error EXCEPT ![w] = 0]
    /\ UNCHANGED <<envvars, mainvars, w_paths, outvars, cv, qv, xv, mv>>

UpdateErrorStatusDropsError(w) ==
    /\ ProcessAlive
    /\ pc[w] = "ues"
    /\ LET d1 == [data EXCEPT !.pending = @ - 1]
           fin == d1.pending = 0 /\ d1.queue = <<>>
       IN  /\ data' = IF fin THEN [d1 EXCEPT !.done = 1] ELSE d1
           /\ pc' = [(IF fin THEN CondBroadcast(pc) ELSE pc) EXCEPT ![w] = "lock"]
    /\ mutex' = 0
    /\ w_path' = [w_path EXCEPT ![w] = NULL]
    /\ w_st' = [w_st EXCEPT ![w] = NoStat]
    /\ w_error' = [w_error EXCEPT ![w] = 0]
    /\ UNCHANGED <<envvars, mainvars, w_paths, outvars, cv, qv, xv, mv>>

UpdateErrorStatusDoneOnEmptyQueue(w) ==
    /\ ProcessAlive
    /\ pc[w] = "ues"
    /\ LET d1 == [data EXCEPT !.pending = @ - 1,
                              !.error_occurred = IF w_error[w] # 0 THEN 1 ELSE @]
           fin == d1.queue = <<>>
       IN  /\ data' = IF fin THEN [d1 EXCEPT !.done = 1] ELSE d1
           /\ pc' = [(IF fin THEN CondBroadcast(pc) ELSE pc) EXCEPT ![w] = "lock"]
    /\ mutex' = 0
    /\ w_path' = [w_path EXCEPT ![w] = NULL]
    /\ w_st' = [w_st EXCEPT ![w] = NoStat]
    /\ w_error' = [w_error EXCEPT ![w] = 0]
    /\ UNCHANGED <<envvars, mainvars, w_paths, outvars, cv, qv, xv, mv>>

UpdateErrorStatus(w) ==
    /\ ProcessAlive
    /\ pc[w] = "ues"
    /\ LET d1 == [data EXCEPT !.pending = @ - 1,
                              !.error_occurred = IF w_error[w] # 0 THEN 1 ELSE @]
           fin == d1.pending = 0 /\ d1.queue = <<>>
       IN  /\ data' = IF fin THEN [d1 EXCEPT !.done = 1] ELSE d1
           /\ pc' = [(IF fin THEN CondBroadcast(pc) ELSE pc) EXCEPT ![w] = "lock"]
    /\ mutex' = 0
    /\ w_path' = [w_path EXCEPT ![w] = NULL]
    /\ w_st' = [w_st EXCEPT ![w] = NoStat]
    /\ w_error' = [w_error EXCEPT ![w] = 0]
    /\ UNCHANGED <<envvars, mainvars, w_paths, outvars, cv, qv, xv, mv>>

\* Every step of thread w except acquiring the mutex and a spurious wake-up.
WorkerRun(w) ==
    \/ CondWait(w)
    \/ WorkerExit(w)
    \/ WorkerDequeue(w)
    \/ ProcessPathLstat(w)
    \/ HandleFile(w)
    \/ HandleDirectoryOpen(w)
    \/ HandleDirectoryError(w)
    \/ HandleDirectoryEnqueue(w)
    \/ UpdateErrorStatus(w)

Next ==
    \/ MainNext
    \/ \E w \in Workers : MutexLock(w)
    \/ \E w \in Workers : WorkerRun(w)
    \/ \E w \in Workers : SpuriousWakeup(w)

Spec == Init /\ [][Next]_vars

\* Fair scheduling: main and every thread keep running, and a thread that
\* asks for the mutex again and again gets it.  No fairness for spurious
\* wake-ups, which need never happen.
FairSpec ==
    /\ Spec
    /\ WF_vars(MainNext)
    /\ \A w \in Workers : WF_vars(WorkerRun(w)) /\ SF_vars(MutexLock(w))

\* ------------------------------------------- byte/block arithmetic alone

\* The accumulator starts from any byte total; handle_file adds the size of
\* up to MaxAdds nodes; main converts the total to blocks.
BlockInit ==
    /\ stat_fail = {}
    /\ read_fail = {}
    /\ opts = <<>>
    /\ args = <<>>
    /\ mainpc = "off"
    /\ MduStart
    /\ cv \in {[pc |-> "acc", total_size |-> b, base |-> b, added |-> 0,
                adds |-> 0, total_blocks |-> 0] : b \in 0..MaxBytes}
    /\ qv = QvOff
    /\ xv = XvOff
    /\ mv = MvOff

\* handle_file: total_size += st_blocks * 512
CvHandleFile ==
    /\ cv.pc = "acc"
    /\ cv.adds < MaxAdds
    /\ \E n \in 0..MaxStBlocks :
          cv' = [cv EXCEPT !.total_size = @ + StSize(n), !.added = @ + n,
                           !.adds = @ + 1]
    /\ UNCHANGED <<envvars, mainvars, data, wvars, outvars, qv, xv, mv>>

\* main: total_blocks = (total_size + 511) / 512
CvReport ==
    /\ cv.pc = "acc"
    /\ cv' = [cv EXCEPT !.pc = "printed",
                        !.total_blocks = TotalBlocks(cv.total_size)]
    /\ UNCHANGED <<envvars, mainvars, data, wvars, outvars, qv, xv, mv>>

BlockNext ==
    \/ CvHandleFile
    \/ CvReport

BlockSpec == BlockInit /\ [][BlockNext]_vars

\* ============================================================== properties

\* The tree as the file system has it, independently of any traversal.
Children(p) ==
    {q \in DOMAIN FS : Len(q) = Len(p) + 1 /\ SubSeq(q, 1, Len(p)) = p}

\* Every node at or below p.
RECURSIVE Reachable(_)
Reachable(p) ==
    IF p \notin DOMAIN FS THEN {}
    ELSE {p} \cup UNION {Reachable(q) : q \in Children(p)}

\* The nodes at or below p whose metadata query succeeds and that are not
\* below a directory that cannot be enumerated.
RECURSIVE Measured(_)
Measured(p) ==
    IF p \notin DOMAIN FS \/ p \in stat_fail THEN {}
    ELSE IF FS[p].st_mode = "dir" /\ p \notin read_fail
         THEN {p} \cup UNION {Measured(q) : q \in Children(p)}
         ELSE {p}

\* The tasks of a traversal of p that fail (metadata query or enumeration).
RECURSIVE Failures(_)
Failures(p) ==
    IF p \notin DOMAIN FS \/ p \in stat_fail THEN {p}
    ELSE IF FS[p].st_mode # "dir" THEN {}
    ELSE IF p \in read_fail THEN {p}
    ELSE UNION {Failures(q) : q \in Children(p)}

RECURSIVE SumBlocks(_)
SumBlocks(S) ==
    IF S = {} THEN 0
    ELSE LET p == CHOOSE q \in S : TRUE
         IN  FS[p].st_blocks + SumBlocks(S \ {p})

\* A thread that has popped a task and not yet performed its decrement.
InFlight(w) ==
    pc[w] \in {"lstat", "hf_lock", "hf", "opendir", "hde_lock", "hde",
               "hd_lock", "hd", "ues_lock", "ues"}

AllExited == \A w \in 1..num_threads : pc[w] = "exit"

PerEntryDiagnostics ==
    {k \in 1..Len(stderr) : stderr[k][1] \in {"cannot access",
                                              "cannot read directory"}}

\* C1: when the traversal of a top-level path in which no query fails has
\* completed (all workers joined), total_size is the sum of the allocated
\* storage of every node at or below the path, each counted once.
C1_TotalIsSumOfReachable ==
    (mainpc = "report" /\ Failures(paths[i]) = {})
        => data.total_size = 512 * SumBlocks(Reachable(paths[i]))

C1_Witness ==
    /\ mainpc = "report"
    /\ paths[i] = <<".">>
    /\ Failures(paths[i]) = {}
    /\ num_threads = 2
    /\ data.total_size = 512 * 15

\* C2: under fair scheduling, once the workers of a top-level path have been
\* spawned, done becomes true and every worker exits, so that main's joins
\* return; and the run ends, after a return with one result line per path
\* (or by a fatal exit).  A state in which some worker is blocked for ever
\* would break the first conjunct.
C2_Terminates ==
    /\ (mainpc = "join") ~> (mainpc = "report" /\ data.done = 1 /\ AllExited)
    /\ <>(\/ mainpc = "exited"
          \/ mainpc = "returned" /\ Len(stdout) = Len(paths))

C2_Witness ==
    /\ mainpc = "returned"
    /\ num_threads = 2
    /\ paths = << <<".", "b">>, <<"x">> >>
    /\ Len(stdout) = 2
    /\ data.done = 1

\* C3: no worker has exited, and main is not about to read total_size, while
\* a task is still queued or popped and not yet decremented.
C3_NoEarlyCompletion ==
    ((\E w \in Workers : pc[w] = "exit") \/ mainpc = "report")
        => (data.queue = <<>> /\ \A w \in Workers : ~InFlight(w))

C3_Witness ==
    /\ mainpc = "join"
    /\ num_threads = 2
    /\ paths[i] = <<".">>
    /\ pc[2] = "exit"
    /\ pc[1] = "relock"

\* C4: the total, the error flag, the result lines and the exit status are
\* functions of the paths, the tree and the failing queries alone: the same
\* for every worker count and every schedule.
C4_Deterministic ==
    /\ Len(stdout) <= Len(paths)
    /\ \A k \in 1..Len(stdout) :
          stdout[k] = [blocks |-> SumBlocks(Measured(paths[k])), path |-> paths[k]]
    /\ mainpc = "report" =>
          /\ data.total_size = 512 * SumBlocks(Measured(paths[i]))
          /\ data.error_occurred = IF Failures(paths[i]) = {} THEN 0 ELSE 1
    /\ mainpc = "returned" =>
          /\ Len(stdout) = Len(paths)
          /\ status = IF \A k \in 1..Len(paths) : Failures(paths[k]) = {}
                      THEN 0 ELSE 1

C4_Witness ==
    /\ mainpc = "returned"
    /\ num_threads = 2
    /\ paths = << <<".", "b">>, <<"x">> >>
    /\ stat_fail # {}
    /\ read_fail = {}
    /\ stdout[1].blocks = 4
    /\ status = 1

\* C5: a traversal with a failing task still completes with every other task
\* processed: the context is quiescent, the error flag is set, and the total
\* (and the printed block count) is the sum over the nodes whose metadata
\* query succeeded outside unreadable directories.
C5_FailureIsLocal ==
    /\ (mainpc = "report" /\ Failures(paths[i]) # {}) =>
          /\ data.error_occurred = 1
          /\ data.queue = <<>>
          /\ data.pending = 0
          /\ data.total_size = 512 * SumBlocks(Measured(paths[i]))
    /\ \A k \in 1..Len(stdout) :
          Failures(paths[k]) # {} =>
              stdout[k].blocks = SumBlocks(Measured(paths[k]))

C5_Witness ==
    /\ mainpc = "report"
    /\ num_threads = 2
    /\ paths[i] = <<".">>
    /\ read_fail = {<<".", "b">>}
    /\ data.error_occurred = 1
    /\ data.total_size = 512 * 13
    /\ Len(stderr) = 1

\* C6: once a result line has been printed for a path whose traversal had a
\* failing task, exit_code is EXIT_FAILURE in every later state; and after
\* main returns, the status is 0 exactly when no per-entry diagnostic was
\* emitted in any traversal, with one result line for every path.
C6_ExitStatus ==
    /\ \A k \in 1..Len(stdout) :
          Failures(paths[k]) # {} => exit_code = EXIT_FAILURE
    /\ mainpc = "returned" =>
          /\ (status = 0 <=> PerEntryDiagnostics = {})
          /\ Len(stdout) = Len(paths)

C6_Witness ==
    /\ mainpc = "returned"
    /\ paths = << <<"x">>, <<".", "b">> >>
    /\ stat_fail = {}
    /\ read_fail = {}
    /\ status = EXIT_FAILURE
    /\ Len(stdout) = 2

\* C7: the result line of path i is printed only with all N workers of path
\* i exited; threads exist only between the seeding of path i and its line
\* (so none of path i+1 exists before line i); lines come one per path, in
\* input order, carrying the path as given.
C7_Sequential ==
    /\ mainpc = "report" => AllExited
    /\ (\E w \in Workers : pc[w] # "idle") =>
          mainpc \in {"spawn", "join", "report", "exited"}
    /\ mainpc \in {"loop", "spawn", "join", "report"} => Len(stdout) = i - 1
    /\ Len(stdout) <= Len(paths)
    /\ \A k \in 1..Len(stdout) : stdout[k].path = paths[k]
    /\ mainpc = "returned" => Len(stdout) = Len(paths)

C7_Witness ==
    /\ mainpc = "join"
    /\ i = 2
    /\ num_threads = 2
    /\ paths = << <<"x">>, <<".", "b">> >>
    /\ stdout = << [blocks |-> 0, path |-> <<"x">>] >>
    /\ InFlight(1)
    /\ pc[2] = "wait"

\* C8: when main is about to create the first worker of any top-level path,
\* the context holds total_size 0, error 0, done 0, pending 1 and a queue of
\* exactly that path, whatever the previous paths left behind.
C8_FreshContext ==
    (mainpc = "spawn" /\ t = 1) =>
        data = [queue |-> <<paths[i]>>, total_size |-> 0, pending |-> 1,
                done |-> 0, error_occurred |-> 0]

C8_Witness ==
    /\ mainpc = "spawn"
    /\ t = 1
    /\ i = 2
    /\ paths[1] = <<".", "b">>
    /\ read_fail # {}
    /\ exit_code = EXIT_FAILURE
    /\ stdout[1].blocks = 4
    /\ data.queue = <<paths[2]>>

\* An option argument whose value is below 1: it does not start with a digit
\* 1..9 (the drawn arguments carry no leading blank, '+' or zero padding).
ValueBelowOne(s) ==
    s = <<>> \/ Head(s) \notin {"1", "2", "3", "4", "5", "6", "7", "8", "9"}

\* C9: after a -j whose value is below 1 (a non-numeric one included) the
\* process has exited with a non-zero status and there is no context, no
\* thread, no queried path and no result line; with no -j scanned the worker
\* count is 1, and a traversal only ever runs with a worker count >= 1.
C9_InvalidThreadCount ==
    /\ (optarg # NULL /\ ValueBelowOne(optarg)) =>
          /\ mainpc = "exited"
          /\ status # 0
          /\ data = NoData
          /\ \A w \in Workers : pc[w] = "idle"
          /\ paths = <<>>
          /\ stdout = <<>>
          /\ PerEntryDiagnostics = {}
    /\ optarg = NULL => num_threads = 1
    /\ mainpc \in {"loop", "spawn", "join", "report", "returned"} => num_threads >= 1

C9_Witness ==
    /\ optarg = <<"a">>
    /\ mainpc = "exited"
    /\ status = EXIT_FAILURE
    /\ args # <<>>

\* C10: the printed block count is the ceiling of total_size / 512 for every
\* total_size >= 0; and when total_size is made only of st_blocks * 512
\* contributions it is exactly the sum of those st_blocks.
C10_BlockCount ==
    cv.pc = "printed" =>
        /\ cv.total_blocks * 512 >= cv.total_size
        /\ (cv.total_blocks - 1) * 512 < cv.total_size
        /\ cv.base = 0 => cv.total_blocks = cv.added

C10_Witness ==
    /\ cv.pc = "printed"
    /\ cv.base = 0
    /\ cv.adds = 2
    /\ cv.added = 3
    /\ cv.total_blocks = 3

\* ------------------------------------------------------------------- C11
\* The diagnostic of a failed pthread_create is in stderr.
WorkerCreationFailed ==
    \E k \in 1..Len(stderr) : stderr[k] = <<"pthread_create", NULL>>

\* C11: when creating one of the workers of top-level path i fails, the
\* process has ended with a non-zero status, and stdout holds exactly the
\* result lines of the i - 1 earlier paths: none for path i or a later one.
C11_WorkerCreationFailure ==
    WorkerCreationFailed
        => /\ mainpc = "exited"
           /\ status # EXIT_SUCCESS
           /\ status # -1
           /\ Len(stdout) = i - 1
           /\ \A k \in 1..Len(stdout) : stdout[k].path = paths[k]

\* The second worker of the second path could not be created, after the
\* first path was reported and the first worker of the second was running.
C11_Witness ==
    /\ WorkerCreationFailed
    /\ i = 2 /\ t = 2
    /\ Len(paths) = 2
    /\ Len(stdout) = 1
    /\ pc[1] # "idle"
    /\ status = EXIT_FAILURE

\* ------------------------------------------------------------------- C12
\* A context has been initialised and seeded for top-level path i.
ContextSeeded == mainpc \in {"spawn", "join", "report"}

\* Thread w has read the children of its directory and has not yet put them
\* in the queue and in pending.
HoldsUnregistered(w) == pc[w] \in {"hd_lock", "hd"}

\* The critical section of handle_directory: all K children appended to the
\* queue and K added to pending in the one step that releases the mutex.
EnqueueStep(w) ==
    (pc[w] = "hd" /\ pc'[w] # "hd")
        => /\ mutex = w /\ mutex' = 0
           /\ data'.queue = data.queue \o w_paths[w]
           /\ data'.pending = data.pending + Len(w_paths[w])
           /\ w_paths'[w] = <<>>
           /\ pc'[w] = "ues_lock"

\* The critical section of update_error_status is entered by a new
\* acquisition of the mutex, after the one of handle_directory was left.
SelfDecrementStep(w) ==
    /\ (pc'[w] = "ues" /\ pc[w] # "ues")
           => pc[w] = "ues_lock" /\ mutex = 0 /\ mutex' = w
    /\ (pc[w] = "ues" /\ pc'[w] # "ues")
           => /\ mutex = w
              /\ w_paths[w] = <<>>
              /\ data'.pending = data.pending - 1

\* C12: the K children of an enumerated directory are pushed and counted in
\* one critical section that ends before the one in which the worker
\* subtracts 1 for the directory; pending is never 0 while children that
\* were read are not yet in the queue and in pending.
C12_EnqueueBeforeSelfDecrement ==
    /\ [](ContextSeeded /\ data.pending = 0
              => \A w \in Workers : ~HoldsUnregistered(w) /\ w_paths[w] = <<>>)
    /\ [][\A w \in Workers : EnqueueStep(w) /\ SelfDecrementStep(w)]_vars
    /\ [][data'.pending < data.pending
             => \E w \in Workers : pc[w] = "ues" /\ pc'[w] = "lock"]_vars

\* Thread 1 has registered the two children of "." and not yet subtracted
\* its 1: pending counts the directory and both children.
C12_Witness ==
    /\ pc[1] = "ues_lock"
    /\ w_path[1] = <<".">>
    /\ w_st[1].st_mode = "dir"
    /\ data.pending = 3
    /\ Len(data.queue) = 2
    /\ mutex = 0

\* ------------------------------------------------------------------- C13
\* Thread w has put the children of its directory in the queue and in
\* pending, and has not yet subtracted the 1 of the directory itself.
RegisteredNotDecremented(w) ==
    /\ pc[w] \in {"ues_lock", "ues"}
    /\ w_st[w].st_mode = "dir"
    /\ ~OpendirFails(w_path[w])

\* C13 as stated: push, pending += K, pending -= 1 and the broadcast happen
\* under one lock acquisition, so that the state between the increment and
\* the decrement is never seen while the worker does not hold the mutex.
C13_OneLockAcquisition ==
    \A w \in Workers : RegisteredNotDecremented(w) => mutex = w

\* C13, amended: push, pending += K and the broadcast happen under one lock
\* acquisition; the mutex is then released, and the 1 of the directory is
\* subtracted under a later acquisition.  The state in between is open to
\* the other workers, and in it pending still counts the directory, so done
\* is not set.
C13_TwoCriticalSections ==
    /\ [][\A w \in Workers :
             (pc[w] = "hd" /\ pc'[w] # "hd")
                 => /\ mutex = w /\ mutex' = 0
                    /\ data'.queue = data.queue \o w_paths[w]
                    /\ data'.pending = data.pending + Len(w_paths[w])
                    /\ \A v \in Workers : pc'[v] # "wait"
                    /\ pc'[w] = "ues_lock"]_vars
    /\ [](\A w \in Workers :
             RegisteredNotDecremented(w) => data.pending >= 1 /\ data.done = 0)

\* Thread 2 has popped child "a" while thread 1, which registered it, has
\* released the mutex and not yet subtracted the 1 of ".".
C13_Witness ==
    /\ RegisteredNotDecremented(1)
    /\ pc[1] = "ues_lock"
    /\ w_path[1] = <<".">>
    /\ pc[2] = "lstat"
    /\ w_path[2] = <<".", "a">>
    /\ data.pending = 3

\* ------------------------------------------------------------------- C14
\* C14: in a seeded context with the mutex free, done is set exactly when
\* pending is 0 and the queue is empty; and while the context lives, once
\* done is set it stays set and the queue, pending and the total stay as
\* they are.
C14_DoneIffQuiescent ==
    /\ [](ContextSeeded /\ mutex = 0
              => (data.done = 1 <=> data.pending = 0 /\ data.queue = <<>>))
    /\ [][(ContextSeeded /\ mainpc' \in {"spawn", "join", "report"}
               /\ data.done = 1)
             => /\ data'.done = 1
                /\ data'.queue = data.queue
                /\ data'.pending = data.pending
                /\ data'.total_size = data.total_size]_vars

\* done has been set with the mutex released while thread 2, woken by the
\* broadcast, has still to take the mutex and leave.
C14_Witness ==
    /\ ContextSeeded
    /\ mutex = 0
    /\ data.done = 1
    /\ data.pending = 0
    /\ data.total_size > 0
    /\ pc[2] = "relock"
    /\ pc[1] = "lock"

\* ------------------------------------------------------------------- C15
\* The threads that have popped a task and not yet subtracted it.
InFlightWorkers == {w \in Workers : InFlight(w)}

\* C15: in a seeded context with the mutex free, pending is the number of
\* queued tasks plus the number of workers holding a popped task they have
\* not yet subtracted; so pending >= 0, pending >= the queue's length, and
\* pending = 0 only with an empty queue.
C15_PendingAccounting ==
    (ContextSeeded /\ mutex = 0)
        => /\ data.pending = Len(data.queue) + Cardinality(InFlightWorkers)
           /\ data.pending >= 0
           /\ data.pending >= Len(data.queue)
           /\ (data.pending = 0 => data.queue = <<>>)

\* One task queued and both threads working on a popped task.
C15_Witness ==
    /\ ContextSeeded
    /\ mutex = 0
    /\ Len(data.queue) = 1
    /\ InFlightWorkers = {1, 2}
    /\ data.pending = 3

\* ------------------------------------------------------------------- C16
\* C16: a critical section of a worker that makes the queue non-empty or
\* sets done leaves no thread blocked on the condition variable when it
\* releases the mutex; so whenever the mutex is free, a thread still
\* blocked there finds the queue empty and done not set.
C16_NoMissedWakeup ==
    /\ [](mutex = 0
              => \A w \in Workers :
                    pc[w] = "wait" => data.queue = <<>> /\ data.done = 0)
    /\ [][(/\ mutex # 0 /\ mutex' = 0
            /\ \/ data.queue = <<>> /\ data'.queue # <<>>
               \/ data.done = 0 /\ data'.done = 1)
             => \A w \in Workers : pc'[w] # "wait"]_vars

\* Thread 2 went back to waiting after it handled the only child of "b";
\* thread 1 has still to subtract "b", which will set done and must wake it.
C16_Witness ==
    /\ mutex = 0
    /\ pc[2] = "wait"
    /\ pc[1] = "ues_lock"
    /\ w_path[1] = <<".", "b">>
    /\ RegisteredNotDecremented(1)
    /\ data.pending = 1
    /\ data.queue = <<>>

\* ------------------------------------------------------------------- C17
\* Thread w comes to the call of update_error_status only with its task
\* settled: lstat failed and the error is noted, or the size of a
\* non-directory was added, or opendir failed and the error was recorded, or
\* the children were pushed and counted.
SettledBeforeDecrement(w) ==
    (pc'[w] = "ues_lock" /\ pc[w] # "ues_lock")
        => \/ pc[w] = "lstat" /\ LstatFails(w_path[w]) /\ w_error'[w] = 1
           \/ /\ pc[w] = "hf"
              /\ FS[w_path[w]].st_mode # "dir"
              /\ data'.total_size
                    = data.total_size + BlockSize * FS[w_path[w]].st_blocks
           \/ pc[w] = "hde" /\ data'.error_occurred = 1
           \/ /\ pc[w] = "hd"
              /\ data'.queue = data.queue \o w_paths[w]
              /\ data'.pending = data.pending + Len(w_paths[w])

\* A directory is opened only after its own size was added, and its
\* children or its failure are handled only after the opendir.
DirectoryOrder(w) ==
    /\ (pc'[w] = "opendir" /\ pc[w] # "opendir")
           => /\ pc[w] = "hf"
              /\ data'.total_size
                    = data.total_size + BlockSize * FS[w_path[w]].st_blocks
    /\ (pc'[w] \in {"hd_lock", "hde_lock"} /\ pc[w] \notin {"hd_lock", "hde_lock"})
           => pc[w] = "opendir"

\* A popped task is given up in one way only: the step of update_error_status
\* that subtracts exactly 1, records the task's error and drops the task.
OneDecrementPerTask(w) ==
    /\ (~InFlight(w) /\ InFlight(w)')
           => /\ pc[w] = "check"
              /\ w_path'[w] = Head(data.queue)
              /\ data'.pending = data.pending
    /\ (InFlight(w) /\ ~InFlight(w)')
           => /\ pc[w] = "ues"
              /\ data'.pending = data.pending - 1
              /\ (w_error[w] = 1 => data'.error_occurred = 1)
              /\ w_path'[w] = NULL
    /\ (InFlight(w) /\ InFlight(w)') => w_path'[w] = w_path[w]

\* C17: each popped task, failed or not, is subtracted from pending by
\* exactly 1, exactly once, and only after its size was added and/or its
\* error recorded and its children, if any, pushed and counted.
C17_OneDecrementAfterSettled ==
    /\ [][\A w \in Workers : /\ SettledBeforeDecrement(w)
                              /\ DirectoryOrder(w)
                              /\ OneDecrementPerTask(w)]_vars
    /\ [][data'.pending < data.pending
             => /\ data'.pending = data.pending - 1
                /\ Cardinality({w \in Workers : InFlight(w) /\ ~InFlight(w)'}) = 1]_vars

\* Path "b" is done: the directory and its failing child "c" have both
\* been subtracted, the size of "b" is in the total and the error is set.
C17_Witness ==
    /\ mainpc = "report"
    /\ paths[i] = <<".", "b">>
    /\ stat_fail = {<<".", "b", "c">>}
    /\ data.pending = 0
    /\ data.error_occurred = 1
    /\ data.total_size = BlockSize * FS[<<".", "b">>].st_blocks

\* ------------------------------------------------------------------- C18
\* The tasks that exist: one per queue position and one per in-flight thread.
QueuedTasks == {data.queue[k] : k \in 1..Len(data.queue)}

HeldTasks == {w_path[w] : w \in InFlightWorkers}

\* The nodes thread w's task has still to bring into the total: the whole
\* subtree before the task's size is added, the part below it between that
\* and the registration of its children, nothing afterwards.
ToMeasure(w) ==
    IF pc[w] \in {"lstat", "hf_lock", "hf"} THEN Measured(w_path[w])
    ELSE IF pc[w] \in {"opendir", "hd_lock", "hd"}
         THEN Measured(w_path[w]) \ {w_path[w]}
         ELSE {}

\* The nodes not yet in the total: those of the queued tasks and those the
\* in-flight threads have still to measure.
Outstanding ==
    UNION {Measured(q) : q \in QueuedTasks}
        \cup UNION {ToMeasure(w) : w \in Workers}

\* C18: a task is in the queue or with exactly one worker, never both and
\* never with two; and the total is at every moment the storage of the
\* measurable nodes of the path minus that of the nodes still outstanding,
\* so no task is handled twice and none is dropped.
C18_ExclusiveOwnership ==
    ContextSeeded
        => /\ Cardinality(QueuedTasks \cup HeldTasks)
                 = Len(data.queue) + Cardinality(InFlightWorkers)
           /\ NULL \notin HeldTasks
           /\ data.total_size
                 = BlockSize * (SumBlocks(Measured(paths[i]))
                                  - SumBlocks(Outstanding))

\* Both children of "." are being handled, each by its own thread; "a" is
\* already in the total, "b" and its child are not.
C18_Witness ==
    /\ ContextSeeded
    /\ pc[1] = "ues_lock" /\ w_path[1] = <<".", "a">>
    /\ pc[2] = "lstat" /\ w_path[2] = <<".", "b">>
    /\ data.queue = <<>>
    /\ data.total_size
          = BlockSize * (FS[<<".">>].st_blocks + FS[<<".", "a">>].st_blocks)

\* ------------------------------------------------------------------- C19
\* C19: a thread starts to wait only from the test under the mutex, with
\* the queue empty and done not set; a thread that was woken takes the mutex
\* and stands at that test again; a thread takes a task only from a
\* non-empty queue, and ends only with done set.
C19_WaitPredicateRetested ==
    /\ [][\A w \in Workers :
             /\ (pc'[w] = "wait" /\ pc[w] # "wait")
                    => /\ pc[w] = "check" /\ mutex = w
                       /\ data.queue = <<>> /\ data.done = 0
             /\ (pc[w] = "wait" /\ pc'[w] # "wait") => pc'[w] = "relock"
             /\ (pc[w] = "relock" /\ pc'[w] # "relock")
                    => pc'[w] = "check" /\ mutex = 0 /\ mutex' = w
             /\ (pc'[w] = "lstat" /\ pc[w] # "lstat")
                    => /\ pc[w] = "check" /\ mutex = w
                       /\ data.queue # <<>>
                       /\ w_path'[w] = Head(data.queue)
                       /\ w_path'[w] # NULL
             /\ (pc'[w] = "exit" /\ pc[w] # "exit")
                    => /\ pc[w] = "check" /\ mutex = w
                       /\ data.queue = <<>> /\ data.done = 1]_vars
    /\ [](\A w \in Workers :
             /\ (InFlight(w) => w_path[w] \in DOMAIN FS \cup {paths[i]})
             /\ (ContextSeeded /\ pc[w] = "exit" => data.done = 1))

\* Thread 2 was woken for child "c", and thread 1 took "c" first: thread 2
\* will find the queue empty and done not set, and wait again.
C19_Witness ==
    /\ pc[2] = "relock"
    /\ pc[1] = "lstat"
    /\ w_path[1] = <<".", "b", "c">>
    /\ data.queue = <<>>
    /\ data.done = 0

\* ------------------------------------------------------------------- C20
\* Thread w is inside one of the critical sections of worker.c.
InCritical(w) == pc[w] \in {"check", "hf", "hde", "hd", "ues"}

\* C20: a thread is at a position where it reads or writes the shared
\* context exactly when it holds the mutex, so at most one thread is;
\* every change of the context made while main stands still is made by the
\* holder, which then releases; a thread that has ended does not hold it.
C20_MutualExclusion ==
    /\ [](\A w \in Workers : InCritical(w) <=> mutex = w)
    /\ [](Cardinality({w \in Workers : InCritical(w)}) <= 1)
    /\ [](\A w \in Workers : pc[w] = "exit" => mutex # w)
    /\ [][(data' # data /\ mainpc' = mainpc)
             => /\ mutex # 0
                /\ InCritical(mutex)
                /\ pc'[mutex] # pc[mutex]
                /\ mutex' = 0]_vars
    /\ [][\A w \in Workers :
             (pc[w] = "check" /\ pc'[w] # "check") => mutex = w /\ mutex' = 0]_vars

\* Thread 1 adds a size under the mutex while thread 2 stands before the
\* same critical section and has to wait for it.
C20_Witness ==
    /\ mutex = 1
    /\ pc[1] = "hf"
    /\ pc[2] = "hf_lock"
    /\ data.total_size > 0

\* ------------------------------------------------------------------- C21
\* Thread w is about to make, or is inside, a filesystem query: lstat, or
\* opendir with the readdir loop.
InFsQuery(w) == pc[w] \in {"lstat", "opendir"}

\* C21: a thread inside a filesystem query does not hold the mutex; so
\* while it is there, any other thread that asks for the free mutex can
\* take it, and the holder of the mutex can go on with its critical section.
C21_NoLockDuringFsQuery ==
    \A w \in Workers :
        InFsQuery(w)
            => /\ mutex # w
               /\ \A v \in Workers \ {w} :
                     /\ (pc[v] \in DOMAIN AfterLock /\ mutex = 0 /\ ProcessAlive
                            => ENABLED MutexLock(v))
                     /\ (mutex = v /\ ProcessAlive => ENABLED WorkerRun(v))

\* Thread 1 is at the opendir of "b" while thread 2 holds the mutex and is
\* adding the size of "a" to the total.
C21_Witness ==
    /\ pc[1] = "opendir"
    /\ w_path[1] = <<".", "b">>
    /\ mutex = 2
    /\ pc[2] = "hf"
    /\ w_path[2] = <<".", "a">>

\* ------------------------------------------------------------------- C22
\* The steps thread w takes for a task whose lstat fails: the failed query
\* touches nothing shared; update_error_status then, under the mutex, sets
\* the error flag and subtracts 1, and the thread is back at the top of
\* its loop.  None of these steps changes the total or the queue.
AccessFailureSteps(w) ==
    /\ (pc[w] = "lstat" /\ LstatFails(w_path[w]) /\ pc'[w] # "lstat")
           => /\ data' = data
              /\ w_error'[w] = 1
              /\ w_paths'[w] = <<>>
              /\ pc'[w] = "ues_lock"
    /\ (pc[w] = "ues_lock" /\ w_error[w] = 1 /\ pc'[w] # "ues_lock")
           => data' = data /\ pc'[w] = "ues" /\ mutex' = w
    /\ (pc[w] = "ues" /\ w_error[w] = 1 /\ pc'[w] # "ues")
           => /\ mutex = w
              /\ data'.error_occurred = 1
              /\ data'.pending = data.pending - 1
              /\ data'.total_size = data.total_size
              /\ data'.queue = data.queue
              /\ pc'[w] = "lock"

\* C22: a task whose metadata query fails sets the error flag and
\* subtracts 1 from pending under the mutex, and its worker returns to the
\* top of the loop; the total and the queue are left as they were.
C22_AccessFailureFrame ==
    /\ [][\A w \in Workers : AccessFailureSteps(w)]_vars
    /\ [](\A w \in Workers :
             w_error[w] = 1
                 => /\ pc[w] \in {"ues_lock", "ues"}
                    /\ LstatFails(w_path[w])
                    /\ w_paths[w] = <<>>)

\* Thread 2 has finished the failing child "c" of "b": the error is set,
\* only "b" is still counted in pending and only the size of "b" is in
\* the total.
C22_Witness ==
    /\ ContextSeeded
    /\ stat_fail = {<<".", "b", "c">>}
    /\ paths[i] = <<".", "b">>
    /\ pc[1] = "ues_lock" /\ w_path[1] = <<".", "b">>
    /\ pc[2] = "lock"
    /\ data.error_occurred = 1
    /\ data.pending = 1
    /\ data.queue = <<>>
    /\ data.total_size = BlockSize * FS[<<".", "b">>].st_blocks

\* ------------------------------------------------------------------- C23
\* Thread w's task is a directory whose lstat succeeded and whose opendir
\* was refused.
EnumerationFailed(w) ==
    /\ pc[w] \in {"hde_lock", "hde", "ues_lock", "ues"}
    /\ w_st[w].st_mode = "dir"
    /\ OpendirFails(w_path[w])

\* The steps of such a task: the refused opendir touches nothing shared and
\* yields no child; the error is set under the mutex; then exactly 1 is
\* subtracted.  The queue and the total stay as they are, pending is never
\* raised.
ReadFailureSteps(w) ==
    /\ (pc[w] = "opendir" /\ OpendirFails(w_path[w]) /\ pc'[w] # "opendir")
           => data' = data /\ w_paths'[w] = <<>> /\ pc'[w] = "hde_lock"
    /\ (pc[w] = "hde" /\ pc'[w] # "hde")
           => /\ mutex = w
              /\ data'.error_occurred = 1
              /\ data'.queue = data.queue
              /\ data'.pending = data.pending
              /\ data'.total_size = data.total_size
              /\ pc'[w] = "ues_lock"
    /\ (pc[w] = "ues" /\ EnumerationFailed(w) /\ pc'[w] # "ues")
           => /\ data'.error_occurred = 1
              /\ data'.queue = data.queue
              /\ data'.pending = data.pending - 1
              /\ data'.total_size = data.total_size
              /\ pc'[w] = "lock"

\* C23: a directory that can be queried but not enumerated sets the error
\* flag, enqueues no child and adds nothing to pending, is subtracted from
\* pending by exactly 1, and its own storage, added before the opendir,
\* stays in the total: the path's total is that of every node except those
\* below the directory.
C23_ReadFailure ==
    /\ [][\A w \in Workers : ReadFailureSteps(w)]_vars
    /\ [](\A w \in Workers :
             EnumerationFailed(w)
                 => /\ w_paths[w] = <<>>
                    /\ data.total_size >= BlockSize * FS[w_path[w]].st_blocks
                    /\ data.pending >= 1)
    /\ [](mainpc = "report"
              => \A d \in read_fail \cap Reachable(paths[i]) :
                    /\ data.error_occurred = 1
                    /\ data.total_size
                          = BlockSize * SumBlocks(Reachable(paths[i])
                                                    \ (Reachable(d) \ {d})))

\* The whole tree was traversed with "b" unreadable: "b" is in the total,
\* its child "c" is not, and the error flag is set.
C23_Witness ==
    /\ mainpc = "report"
    /\ paths[i] = <<".">>
    /\ read_fail = {<<".", "b">>}
    /\ data.error_occurred = 1
    /\ data.pending = 0
    /\ data.total_size
          = BlockSize * (FS[<<".">>].st_blocks + FS[<<".", "a">>].st_blocks
                           + FS[<<".", "b">>].st_blocks)

\* ------------------------------------------------------------------- C24
\* C24: while a context lives its error flag is never cleared; when the
\* traversal is complete the flag is set exactly when some task's lstat or
\* opendir failed; the failure of a task is in the flag no later than the
\* step that subtracts the task, and main, after the joins, turns a set
\* flag into a failing exit code.
C24_ErrorFlagSticky ==
    /\ [][(ContextSeeded /\ mainpc' \in {"spawn", "join", "report"}
               /\ data.error_occurred = 1)
             => data'.error_occurred = 1]_vars
    /\ [](mainpc = "report"
              => (data.error_occurred = 1 <=> Failures(paths[i]) # {}))
    /\ [][\A w \in Workers :
             (/\ pc[w] = "ues" /\ pc'[w] # "ues"
              /\ (LstatFails(w_path[w]) \/ EnumerationFailed(w)))
                 => data'.error_occurred = 1]_vars
    /\ [][(mainpc = "report" /\ mainpc' # "report" /\ data.error_occurred = 1)
             => exit_code' = EXIT_FAILURE]_vars

\* The error of the failing child "c" was recorded early, the traversal
\* of "." went on and is still under way with the flag set.
C24_Witness ==
    /\ ContextSeeded
    /\ paths[i] = <<".">>
    /\ stat_fail = {<<".", "b", "c">>}
    /\ read_fail = {}
    /\ data.error_occurred = 1
    /\ data.done = 0
    /\ pc[1] = "hf" /\ w_path[1] = <<".", "a">>

\* ------------------------------------------------------------------- C25
\* C25: during a traversal no step lowers the total; a step that changes
\* it is the handle_file step of one thread, made under the mutex for a
\* path whose lstat succeeded, and it adds that path's allocated size,
\* which is not negative.
C25_TotalMonotone ==
    /\ [][(ContextSeeded /\ mainpc' = mainpc)
             => /\ data'.total_size >= data.total_size
                /\ (data'.total_size # data.total_size
                      => \E w \in Workers :
                            /\ pc[w] = "hf" /\ pc'[w] # "hf"
                            /\ mutex = w
                            /\ ~LstatFails(w_path[w])
                            /\ FS[w_path[w]].st_blocks >= 0
                            /\ data'.total_size
                                  = data.total_size
                                      + BlockSize * FS[w_path[w]].st_blocks
                            /\ \A v \in Workers \ {w} : pc'[v] = pc[v])]_vars
    /\ [](ContextSeeded => data.total_size >= 0)

\* ".", "a" and "b" are in the total; thread 1 stands at the opendir of
\* "b" and thread 2 has still to subtract "a".
C25_Witness ==
    /\ ContextSeeded
    /\ pc[1] = "opendir" /\ w_path[1] = <<".", "b">>
    /\ pc[2] = "ues_lock" /\ w_path[2] = <<".", "a">>
    /\ data.total_size
          = BlockSize * (FS[<<".">>].st_blocks + FS[<<".", "a">>].st_blocks
                           + FS[<<".", "b">>].st_blocks)

\* ------------------------------------- the queue of thread.c as a linked list
\* Paths handed to enqueue.
QueueElems == {<<"p">>, <<"q">>}

\* Addresses malloc can return for a struct DirNode; 0 is the null pointer.
NodeIds == 1..MaxQueueOps

FreeNode == [path |-> NULL, next |-> 0, live |-> FALSE]

\* enqueue, malloc having returned node n: the node is filled in and linked
\* behind the tail, or becomes head and tail of an empty queue.
ListEnqueueKeepsTail(q, n, path) ==
    LET h1 == [q.heap EXCEPT ![n] = [path |-> path, next |-> 0, live |-> TRUE]]
    IN  IF q.queue_tail # 0
        THEN [q EXCEPT !.heap = [h1 EXCEPT ![q.queue_tail].next = n]]
        ELSE [q EXCEPT !.heap = h1, !.queue_head = n, !.queue_tail = n]

ListEnqueue(q, n, path) ==
    LET h1 == [q.heap EXCEPT ![n] = [path |-> path, next |-> 0, live |-> TRUE]]
    IN  IF q.queue_tail # 0
        THEN [q EXCEPT !.heap = [h1 EXCEPT ![q.queue_tail].next = n],
                       !.queue_tail = n]
        ELSE [q EXCEPT !.heap = h1, !.queue_head = n, !.queue_tail = n]

\* dequeue: the value returned.
ListDequeuePath(q) ==
    IF q.queue_head = 0 THEN NULL ELSE q.heap[q.queue_head].path

\* dequeue: the head node is unlinked and freed; the tail is reset when the
\* queue becomes empty.
ListDequeueStaleTail(q) ==
    IF q.queue_head = 0 THEN q
    ELSE LET node == q.queue_head
         IN  [q EXCEPT !.queue_head = q.heap[node].next,
                       !.heap = [@ EXCEPT ![node] = FreeNode]]

ListDequeue(q) ==
    IF q.queue_head = 0 THEN q
    ELSE LET node == q.queue_head
         IN  [q EXCEPT !.queue_head = q.heap[node].next,
                       !.queue_tail = IF q.heap[node].next = 0 THEN 0 ELSE @,
                       !.heap = [@ EXCEPT ![node] = FreeNode]]

\* thread_data_init: an empty queue; no call made yet.
QueueInit ==
    /\ stat_fail = {}
    /\ read_fail = {}
    /\ opts = <<>>
    /\ args = <<>>
    /\ mainpc = "off"
    /\ MduStart
    /\ cv = CvOff
    /\ qv = [pc |-> "on", queue_head |-> 0, queue_tail |-> 0,
             heap |-> [n \in NodeIds |-> FreeNode],
             pushed |-> <<>>, popped |-> <<>>, ops |-> 0,
             last |-> "init", ret |-> 0]
    /\ xv = XvOff
    /\ mv = MvOff

\* enqueue(data, path) with a successful malloc.
QvEnqueue ==
    /\ qv.pc = "on"
    /\ qv.ops < MaxQueueOps
    /\ \E path \in QueueElems :
       \E n \in {m \in NodeIds : ~qv.heap[m].live} :
          qv' = [ListEnqueue(qv, n, path) EXCEPT
                    !.pushed = Append(@, path), !.ops = @ + 1,
                    !.last = "enqueue", !.ret = 0]
    /\ UNCHANGED <<envvars, mainvars, data, wvars, outvars, cv, xv, mv>>

\* enqueue(data, path) when malloc fails: -1 and an untouched queue.
QvEnqueueNoMem ==
    /\ qv.pc = "on"
    /\ qv.ops < MaxQueueOps
    /\ qv' = [qv EXCEPT !.ops = @ + 1, !.last = "nomem", !.ret = -1]
    /\ UNCHANGED <<envvars, mainvars, data, wvars, outvars, cv, xv, mv>>

\* dequeue(data).
QvDequeue ==
    /\ qv.pc = "on"
    /\ qv.ops < MaxQueueOps
    /\ qv' = [ListDequeue(qv) EXCEPT
                 !.popped = IF ListDequeuePath(qv) = NULL THEN @
                            ELSE Append(@, ListDequeuePath(qv)),
                 !.ops = @ + 1, !.last = "dequeue",
                 !.ret = ListDequeuePath(qv)]
    /\ UNCHANGED <<envvars, mainvars, data, wvars, outvars, cv, xv, mv>>

QueueNext ==
    \/ QvEnqueue
    \/ QvEnqueueNoMem
    \/ QvDequeue

QueueSpec == QueueInit /\ [][QueueNext]_vars

\* The paths found by following next from node n, at most fuel nodes.
RECURSIVE ListFrom(_, _, _)
ListFrom(heap, n, fuel) ==
    IF n = 0 \/ fuel = 0 THEN <<>>
    ELSE <<heap[n].path>> \o ListFrom(heap, heap[n].next, fuel - 1)

ListContents(q) == ListFrom(q.heap, q.queue_head, MaxQueueOps + 1)

\* ------------------------------------------------------------------- C26
\* C26: the paths dequeue has returned are, in order, the first paths that
\* were enqueued, and the list holds the remaining ones in the order of
\* their enqueue; so each path comes out once, in push order.  dequeue on
\* an empty queue returns NULL and leaves head, tail and nodes as they
\* were; on a non-empty one it returns the oldest path still queued.
C26_Fifo ==
    /\ [](qv.pc = "on"
              => /\ Len(qv.popped) <= Len(qv.pushed)
                 /\ qv.popped = SubSeq(qv.pushed, 1, Len(qv.popped))
                 /\ ListContents(qv)
                       = SubSeq(qv.pushed, Len(qv.popped) + 1, Len(qv.pushed))
                 /\ (qv.queue_head = 0 <=> qv.queue_tail = 0))
    /\ [][(qv.pc = "on" /\ qv'.ops # qv.ops /\ qv'.last = "dequeue")
             => IF ListContents(qv) = <<>>
                THEN /\ qv'.ret = NULL
                     /\ qv'.queue_head = qv.queue_head
                     /\ qv'.queue_tail = qv.queue_tail
                     /\ qv'.heap = qv.heap
                     /\ qv'.popped = qv.popped
                ELSE /\ qv'.ret = Head(ListContents(qv))
                     /\ ListContents(qv') = Tail(ListContents(qv))]_vars

\* "p" was pushed and popped, which emptied the queue, and "q" was pushed
\* after that: the list holds exactly "q".
C26_Witness ==
    /\ qv.pc = "on"
    /\ qv.ops = 3
    /\ qv.last = "enqueue"
    /\ qv.pushed = <<<<"p">>, <<"q">>>>
    /\ qv.popped = <<<<"p">>>>
    /\ ListContents(qv) = <<<<"q">>>>

\* ------------------------------------------------------------------- C27
\* Thread w's task is a path that exists and that lstat does not report as
\* a directory: a regular file or a symbolic link.
NonDirectoryTask(w) ==
    /\ InFlight(w)
    /\ ~LstatFails(w_path[w])
    /\ FS[w_path[w]].st_mode # "dir"

\* The steps of such a task: lstat reports the link itself, handle_file
\* adds the path's own size and goes straight to update_error_status, which
\* subtracts 1; the queue is never touched.
NonDirectorySteps(w) ==
    /\ (pc[w] = "lstat" /\ pc'[w] # "lstat" /\ NonDirectoryTask(w))
           => /\ data' = data
              /\ w_st'[w].st_mode = FS[w_path[w]].st_mode
              /\ w_st'[w].st_blocks = FS[w_path[w]].st_blocks
              /\ pc'[w] = "hf_lock"
    /\ (pc[w] = "hf" /\ pc'[w] # "hf" /\ NonDirectoryTask(w))
           => /\ data'.total_size
                    = data.total_size + BlockSize * FS[w_path[w]].st_blocks
              /\ data'.queue = data.queue
              /\ data'.pending = data.pending
              /\ pc'[w] = "ues_lock"
    /\ (pc[w] = "ues" /\ pc'[w] # "ues" /\ NonDirectoryTask(w))
           => /\ data'.total_size = data.total_size
              /\ data'.queue = data.queue
              /\ data'.pending = data.pending - 1
              /\ pc'[w] = "lock"

\* Every task lies below directories only: no task is a path through a
\* symbolic link or a file.
BelowDirectoriesOnly(q) ==
    \A n \in 1..(Len(q) - 1) :
        SubSeq(q, 1, n) \in DOMAIN FS => FS[SubSeq(q, 1, n)].st_mode = "dir"

\* C27: a task that lstat does not report as a directory, be it a regular
\* file or a symbolic link to a directory, adds its own allocated size
\* only, enqueues nothing and is subtracted from pending by 1; what a
\* symbolic link points to is never made a task through the link.
C27_NonDirectoryFrame ==
    /\ [][\A w \in Workers : NonDirectorySteps(w)]_vars
    /\ [](\A w \in Workers :
             NonDirectoryTask(w)
                 => /\ pc[w] \in {"lstat", "hf_lock", "hf", "ues_lock", "ues"}
                    /\ w_paths[w] = <<>>)
    /\ [](ContextSeeded
              => \A q \in QueuedTasks \cup HeldTasks : BelowDirectoriesOnly(q))

\* The link "a" has added its own block to that of "." and waits to be
\* subtracted; its target "b" is queued as the child of "." only.
C27_Witness ==
    /\ ContextSeeded
    /\ pc[1] = "ues_lock"
    /\ w_path[1] = <<".", "a">>
    /\ w_st[1].st_mode = "lnk"
    /\ data.queue = << <<".", "b">> >>
    /\ data.pending = 2
    /\ data.total_size
          = BlockSize * (FS[<<".">>].st_blocks + FS[<<".", "a">>].st_blocks)

\* ------------------------------------------------------------------- C28
\* The names a directory lists besides itself and its parent.
RealEntries(D) ==
    {FS[D].entries[k] : k \in 1..Len(FS[D].entries)} \ {".", ".."}

\* C28: for a directory D that was opened, the children collected, and
\* then pushed, are exactly the paths D/e for the entries e of D other than
\* "." and "..", one task per entry; D itself and its parent are not among
\* them.
C28_ChildTasks ==
    /\ [][\A w \in Workers :
             (/\ pc[w] = "opendir" /\ pc'[w] # "opendir"
              /\ ~OpendirFails(w_path[w]))
                 => LET D == w_path[w]
                        kids == w_paths'[w]
                    IN  /\ {kids[k] : k \in 1..Len(kids)}
                              = {D \o <<e>> : e \in RealEntries(D)}
                        /\ Len(kids) = Cardinality(RealEntries(D))
                        /\ \A k \in 1..Len(kids) :
                              /\ kids[k] # D
                              /\ kids[k] # D \o <<".">>
                              /\ kids[k] # D \o <<"..">>
                              /\ Len(kids[k]) = Len(D) + 1
                        /\ pc'[w] = "hd_lock"]_vars
    /\ [][\A w \in Workers :
             (pc[w] = "hd" /\ pc'[w] # "hd")
                 => /\ data'.queue = data.queue \o w_paths[w]
                    /\ \A k \in 1..Len(w_paths[w]) :
                          SubSeq(w_paths[w][k], 1, Len(w_path[w])) = w_path[w]]_vars

\* Thread 1 has listed "." and holds its two children, "a" and "b", ready
\* to be pushed.
C28_Witness ==
    /\ pc[1] = "hd_lock"
    /\ w_path[1] = <<".">>
    /\ w_paths[1] = << <<".", "a">>, <<".", "b">> >>
    /\ data.queue = <<>>

\* ------------------------------------------------------------------- C29
\* The number of failing tasks of the first k top-level paths.
RECURSIVE SumFailures(_)
SumFailures(k) ==
    IF k = 0 THEN 0 ELSE Cardinality(Failures(paths[k])) + SumFailures(k - 1)

\* How many diagnostics name path p.
DiagnosticsFor(p) == Cardinality({j \in 1..Len(stderr) : stderr[j][2] = p})

\* How many of the first k traversals have p as a failing task.
FailuresOf(p, k) == Cardinality({j \in 1..k : p \in Failures(paths[j])})

TopLevelFails(k) == LstatFails(paths[k])

\* C30: when the lstat of the top-level path itself fails, the traversal
\* still comes to its end with every worker exited, nothing in the total
\* and the error flag set; main prints the line "0 <path as given>" for it,
\* and the run, if it returns, returns a non-zero status.
C30_TopLevelFailure ==
    /\ [](mainpc = "report" /\ TopLevelFails(i)
              => /\ AllExited
                 /\ data.done = 1
                 /\ data.total_size = 0
                 /\ data.error_occurred = 1)
    /\ [](mainpc \in {"loop", "returned"}
              => \A k \in 1..(i - 1) :
                    TopLevelFails(k)
                        => /\ Len(stdout) >= k
                           /\ stdout[k] = [blocks |-> 0, path |-> paths[k]])
    /\ [](mainpc = "returned" /\ (\E k \in 1..Len(paths) : TopLevelFails(k))
              => status = EXIT_FAILURE)
    /\ ((mainpc = "join" /\ TopLevelFails(i))
           ~> (mainpc = "report" /\ AllExited))

\* The run has returned after "x", which does not exist, and then "b":
\* the first line is "0 x", the second the blocks of "b" and "c", and the
\* status is a failure.
C30_Witness ==
    /\ mainpc = "returned"
    /\ paths = << <<"x">>, <<".", "b">> >>
    /\ stat_fail = {} /\ read_fail = {}
    /\ stdout[1] = [blocks |-> 0, path |-> <<"x">>]
    /\ stdout[2].blocks
          = FS[<<".", "b">>].st_blocks + FS[<<".", "b", "c">>].st_blocks
    /\ status = EXIT_FAILURE


\* ------------------------------------ mexec (mexec.c, command.c, pipes.c)
\* Most commands one input holds.
MaxCmds == 3

\* Commands are numbered as in the code, from 0.
Cmds == 0..(MaxCmds - 1)

STDIN_FILENO == 0

STDOUT_FILENO == 1

\* Descriptor numbers: the three standard ones and two per pipe.
Fds == 0..(2 * MaxCmds)

\* What a descriptor refers to.
Closed == <<"closed", 0>>

Tty == <<"tty", 0>>

ReadEnd(p) == <<"r", p>>

WriteEnd(p) == <<"w", p>>

NoFds == [f \in Fds |-> Closed]

\* The descriptor table mexec starts with: standard input, output, error.
StdFds == [f \in Fds |-> IF f <= 2 THEN Tty ELSE Closed]

\* The kernel hands out the lowest descriptor number not in use.
LowestFree(fds) ==
    CHOOSE f \in Fds : fds[f] = Closed /\ \A g \in Fds : g < f => fds[g] # Closed

\* pipe(pipes[i]): <<read descriptor, write descriptor>> of the new pipe.
PipeFds(fds) ==
    LET r == LowestFree(fds)
    IN  <<r, LowestFree([fds EXCEPT ![r] = Tty])>>

\* The table after pipe() has created pipe number p.
Pipe(fds, p) ==
    [fds EXCEPT ![PipeFds(fds)[1]] = ReadEnd(p), ![PipeFds(fds)[2]] = WriteEnd(p)]

\* dup2(old, new): new refers to what old refers to; nothing changes when
\* the two numbers are equal.
Dup2(fds, old, new) == IF old = new THEN fds ELSE [fds EXCEPT ![new] = fds[old]]

\* close_all_pipes: both descriptors of every pipe are closed.
CloseAllPipes(fds, pipes) ==
    [f \in Fds |-> IF \E j \in 1..Len(pipes) : f \in {pipes[j][1], pipes[j][2]}
                   THEN Closed ELSE fds[f]]

\* setup_redirection for command k (the code's i): standard input from
\* pipe k - 1 unless first, standard output to pipe k unless last.  pipes is
\* 1-based here: the code's pipes[i - 1] is pipes[k], its pipes[i] is
\* pipes[k + 1].
SetupRedirection(fds, k, cmd_count, pipes) ==
    LET redirected == IF k > 0 THEN Dup2(fds, pipes[k][1], STDIN_FILENO) ELSE fds
    IN  IF k < cmd_count - 1 THEN Dup2(redirected, pipes[k + 1][2], STDOUT_FILENO)
        ELSE redirected

NoWait == <<"none", 0>>

WaitFailed == <<"failed", 0>>

Exited(code) == <<"exited", code>>

Signaled(sig) == <<"signaled", sig>>

NoChild == [pc |-> "none", fds |-> NoFds, eof |-> FALSE, wstatus |-> NoWait]

\* A child that has terminated: its descriptors are closed by the kernel.
Zombie(ch, wstatus) ==
    [ch EXCEPT !.pc = "zombie", !.fds = NoFds, !.wstatus = wstatus]

\* exit(code) in the parent.
MexecExit(x, code) == [x EXCEPT !.pc = "exited", !.status = code, !.fds = NoFds]

\* wait_for_children, one round: what the result of waitpid does to
\* exit_status; a good result leaves it as it is.  (WaitStatusOverwrite
\* lets every result decide alone.)
WaitStatusOverwrite(exit_status, res) ==
    IF res = WaitFailed \/ res[1] = "signaled" \/ (res[1] = "exited" /\ res[2] # 0)
    THEN EXIT_FAILURE
    ELSE 0

WaitStatus(exit_status, res) ==
    IF res = WaitFailed THEN EXIT_FAILURE
    ELSE IF res[1] = "exited" /\ res[2] # 0 THEN EXIT_FAILURE
    ELSE IF res[1] = "signaled" THEN EXIT_FAILURE
    ELSE exit_status

\* main after read_commands: cmd_count commands were read.
ExecInit ==
    /\ stat_fail = {}
    /\ read_fail = {}
    /\ opts = <<>>
    /\ args = <<>>
    /\ mainpc = "off"
    /\ MduStart
    /\ cv = CvOff
    /\ qv = QvOff
    /\ mv = MvOff
    /\ xv \in {[pc |-> "main", cmd_count |-> n, pipes |-> <<>>, fds |-> StdFds,
                i |-> 0, exit_status |-> 0, status |-> -1,
                child |-> [c \in Cmds |-> NoChild],
                waited |-> [c \in Cmds |-> NoWait]] : n \in 0..MaxCmds}

\* main: nothing to run ends the program with success.
MexecMain ==
    /\ xv.pc = "main"
    /\ xv' = IF xv.cmd_count = 0 THEN MexecExit(xv, EXIT_SUCCESS)
             ELSE [xv EXCEPT !.pc = "setup_pipes", !.i = 0]
    /\ UNCHANGED <<envvars, mainvars, data, wvars, outvars, cv, qv, mv>>

\* setup_pipes: pipe(pipes[i]) succeeds.
SetupPipe ==
    /\ xv.pc = "setup_pipes"
    /\ xv.i < xv.cmd_count - 1
    /\ xv' = [xv EXCEPT !.pipes = Append(@, PipeFds(xv.fds)),
                        !.fds = Pipe(@, xv.i),
                        !.i = @ + 1]
    /\ UNCHANGED <<envvars, mainvars, data, wvars, outvars, cv, qv, mv>>

\* setup_pipes: malloc or pipe fails, the program exits.
SetupPipeFail ==
    /\ xv.pc = "setup_pipes"
    /\ xv.i < xv.cmd_count - 1
    /\ xv' = MexecExit(xv, EXIT_FAILURE)
    /\ UNCHANGED <<envvars, mainvars, data, wvars, outvars, cv, qv, mv>>

\* setup_pipes returns; execute_commands starts its fork loop.
SetupPipesDone ==
    /\ xv.pc = "setup_pipes"
    /\ xv.i >= xv.cmd_count - 1
    /\ xv' = [xv EXCEPT !.pc = "fork", !.i = 0]
    /\ UNCHANGED <<envvars, mainvars, data, wvars, outvars, cv, qv, mv>>

\* fork_and_execute_command(i), parent side: the child starts with a copy
\* of the parent's descriptor table; after the last fork the loop ends.
ForkAndExecuteCommand ==
    /\ xv.pc = "fork"
    /\ xv' = [xv EXCEPT !.child[xv.i] = [NoChild EXCEPT !.pc = "redirect",
                                                        !.fds = xv.fds],
                        !.i = @ + 1,
                        !.pc = IF xv.i + 1 = xv.cmd_count THEN "close" ELSE "fork"]
    /\ UNCHANGED <<envvars, mainvars, data, wvars, outvars, cv, qv, mv>>

\* fork fails: perror and exit(EXIT_FAILURE).
ForkFail ==
    /\ xv.pc = "fork"
    /\ xv' = MexecExit(xv, EXIT_FAILURE)
    /\ UNCHANGED <<envvars, mainvars, data, wvars, outvars, cv, qv, mv>>

\* execute_commands: close_all_pipes in the parent, then wait_for_children.
\* (ParentCloseAllPipesForgotten leaves the parent's descriptors open.)
ParentCloseAllPipesForgotten ==
    /\ xv.pc = "close"
    /\ xv' = [xv EXCEPT !.pc = "wait", !.i = 0]
    /\ UNCHANGED <<envvars, mainvars, data, wvars, outvars, cv, qv, mv>>

ParentCloseAllPipes ==
    /\ xv.pc = "close"
    /\ xv' = [xv EXCEPT !.fds = CloseAllPipes(@, xv.pipes),
                        !.pc = "wait", !.i = 0]
    /\ UNCHANGED <<envvars, mainvars, data, wvars, outvars, cv, qv, mv>>

\* The parent's position after the wait for child number i.
AfterWait(x, res) ==
    [x EXCEPT !.waited[x.i] = res,
              !.exit_status = WaitStatus(@, res),
              !.i = @ + 1,
              !.pc = IF x.i + 1 = x.cmd_count THEN "close_pipes" ELSE "wait"]

\* wait_for_children: waitpid(pids[i]) returns once child i has terminated.
Waitpid ==
    /\ xv.pc = "wait"
    /\ xv.child[xv.i].pc = "zombie"
    /\ xv' = [AfterWait(xv, xv.child[xv.i].wstatus) EXCEPT
                 !.child[xv.i].pc = "reaped"]
    /\ UNCHANGED <<envvars, mainvars, data, wvars, outvars, cv, qv, mv>>

\* wait_for_children: waitpid returns -1.
WaitpidFail ==
    /\ xv.pc = "wait"
    /\ xv' = AfterWait(xv, WaitFailed)
    /\ UNCHANGED <<envvars, mainvars, data, wvars, outvars, cv, qv, mv>>

\* main: close_pipes (the descriptors are closed once more), then return
\* overall_exit_status.
MexecReturn ==
    /\ xv.pc = "close_pipes"
    /\ xv' = [xv EXCEPT !.pc = "returned", !.status = xv.exit_status,
                        !.fds = NoFds]
    /\ UNCHANGED <<envvars, mainvars, data, wvars, outvars, cv, qv, mv>>

\* Child c, setup_redirection: the dup2 calls succeed.
ChildSetupRedirection(c) ==
    /\ xv.child[c].pc = "redirect"
    /\ xv' = [xv EXCEPT !.child[c].fds =
                            SetupRedirection(@, c, xv.cmd_count, xv.pipes),
                        !.child[c].pc = "close"]
    /\ UNCHANGED <<envvars, mainvars, data, wvars, outvars, cv, qv, mv>>

\* Child c, setup_redirection: a dup2 fails, perror and exit(EXIT_FAILURE).
ChildDup2Fail(c) ==
    /\ xv.child[c].pc = "redirect"
    /\ c > 0 \/ c < xv.cmd_count - 1
    /\ xv' = [xv EXCEPT !.child[c] = Zombie(@, Exited(EXIT_FAILURE))]
    /\ UNCHANGED <<envvars, mainvars, data, wvars, outvars, cv, qv, mv>>

\* Child c, close_all_pipes.
ChildCloseAllPipes(c) ==
    /\ xv.child[c].pc = "close"
    /\ xv' = [xv EXCEPT !.child[c].fds = CloseAllPipes(@, xv.pipes),
                        !.child[c].pc = "exec"]
    /\ UNCHANGED <<envvars, mainvars, data, wvars, outvars, cv, qv, mv>>

\* Child c, execvp: the command's image replaces the child's; descriptors
\* stay as they are.
Execvp(c) ==
    /\ xv.child[c].pc = "exec"
    /\ xv' = [xv EXCEPT !.child[c].pc = "running"]
    /\ UNCHANGED <<envvars, mainvars, data, wvars, outvars, cv, qv, mv>>

\* Child c, execvp fails: message and exit(EXIT_FAILURE).
ExecvpFail(c) ==
    /\ xv.child[c].pc = "exec"
    /\ xv' = [xv EXCEPT !.child[c] = Zombie(@, Exited(EXIT_FAILURE))]
    /\ UNCHANGED <<envvars, mainvars, data, wvars, outvars, cv, qv, mv>>

\* The processes (-1 is the parent) and descriptors that refer to d.
Procs == {-1} \cup Cmds

ProcFds(x, p) == IF p = -1 THEN x.fds ELSE x.child[p].fds

Holders(x, d) == {h \in Procs \X Fds : ProcFds(x, h[1])[h[2]] = d}

\* Command c reads its standard input, a pipe no process can write to any
\* more: the read returns end of input.
CommandReadEof(c) ==
    /\ xv.child[c].pc = "running"
    /\ ~xv.child[c].eof
    /\ xv.child[c].fds[STDIN_FILENO][1] = "r"
    /\ Holders(xv, WriteEnd(xv.child[c].fds[STDIN_FILENO][2])) = {}
    /\ xv' = [xv EXCEPT !.child[c].eof = TRUE]
    /\ UNCHANGED <<envvars, mainvars, data, wvars, outvars, cv, qv, mv>>

\* Command c writes to its standard output, a pipe no process can read
\* from any more: the command is killed by SIGPIPE.
CommandSigpipe(c) ==
    /\ xv.child[c].pc = "running"
    /\ xv.child[c].fds[STDOUT_FILENO][1] = "w"
    /\ Holders(xv, ReadEnd(xv.child[c].fds[STDOUT_FILENO][2])) = {}
    /\ xv' = [xv EXCEPT !.child[c] = Zombie(@, Signaled(13))]
    /\ UNCHANGED <<envvars, mainvars, data, wvars, outvars, cv, qv, mv>>

\* Command c ends by itself, with success or with a failure status.
CommandExit(c) ==
    /\ xv.child[c].pc = "running"
    /\ \E code \in {0, 1} :
          xv' = [xv EXCEPT !.child[c] = Zombie(@, Exited(code))]
    /\ UNCHANGED <<envvars, mainvars, data, wvars, outvars, cv, qv, mv>>

ChildRun(c) ==
    \/ ChildSetupRedirection(c)
    \/ ChildDup2Fail(c)
    \/ ChildCloseAllPipes(c)
    \/ Execvp(c)
    \/ ExecvpFail(c)
    \/ CommandReadEof(c)
    \/ CommandSigpipe(c)
    \/ CommandExit(c)

ExecNext ==
    \/ MexecMain
    \/ SetupPipe
    \/ SetupPipeFail
    \/ SetupPipesDone
    \/ ForkAndExecuteCommand
    \/ ForkFail
    \/ ParentCloseAllPipes
    \/ Waitpid
    \/ WaitpidFail
    \/ MexecReturn
    \/ \E c \in Cmds : ChildRun(c)

ExecSpec == ExecInit /\ [][ExecNext]_vars

\* ------------------------------------------------------------------- C31
\* The parent has left its fork loop for good.
ForkingOver == xv.pc \in {"wait", "close_pipes", "returned", "exited"}

\* Command c has been forked and has not terminated.
Alive(c) == xv.child[c].pc \in {"redirect", "close", "exec", "running"}

\* Start-up is over: no fork is to come and every child forked has done its
\* setup_redirection and close_all_pipes.
StartedUp ==
    /\ ForkingOver
    /\ \A c \in Cmds : xv.child[c].pc \notin {"redirect", "close"}

\* The descriptor table command c is to run with.
WiredFds(c) ==
    [f \in Fds |->
        IF f = STDIN_FILENO /\ c > 0 THEN ReadEnd(c - 1)
        ELSE IF f = STDOUT_FILENO /\ c < xv.cmd_count - 1 THEN WriteEnd(c)
        ELSE IF f <= 2 THEN Tty
        ELSE Closed]

\* C31: when the parent waits, all cmd_count commands have been forked and
\* the parent holds no end of any pipe; a child that has passed its
\* close_all_pipes holds the read end of pipe c - 1 as standard input, the
\* write end of pipe c as standard output and no other pipe descriptor; so
\* after start-up the write end of pipe p is open in command p only and the
\* read end in command p + 1 only, and once command p has terminated nobody
\* can write to pipe p: command p + 1 reads end of input.
C31_PipelineWiring ==
    /\ xv.pc \in {"wait", "close_pipes", "returned"}
          => /\ \A c \in 0..(xv.cmd_count - 1) : xv.child[c].pc # "none"
             /\ \A p \in 0..(xv.cmd_count - 2) :
                   \A h \in Holders(xv, ReadEnd(p)) \cup Holders(xv, WriteEnd(p)) :
                      h[1] # -1
    /\ \A c \in Cmds :
          xv.child[c].pc \in {"exec", "running"} => xv.child[c].fds = WiredFds(c)
    /\ StartedUp
          => \A p \in 0..(xv.cmd_count - 2) :
                /\ Holders(xv, WriteEnd(p)) \subseteq {<<p, STDOUT_FILENO>>}
                /\ Holders(xv, ReadEnd(p)) \subseteq {<<p + 1, STDIN_FILENO>>}
                /\ ~Alive(p)
                      => /\ Holders(xv, WriteEnd(p)) = {}
                         /\ (xv.child[p + 1].pc = "running" /\ ~xv.child[p + 1].eof)
                               => ENABLED CommandReadEof(p + 1)

\* Three commands, the parent waits for the first, which has ended with
\* success; the second has read end of input and still runs, writing to
\* the third.
C31_Witness ==
    /\ xv.cmd_count = 3
    /\ xv.pc = "wait" /\ xv.i = 0
    /\ xv.child[0].pc = "zombie" /\ xv.child[0].wstatus = Exited(0)
    /\ xv.child[1].pc = "running" /\ xv.child[1].eof
    /\ xv.child[2].pc = "running" /\ ~xv.child[2].eof
    /\ Holders(xv, WriteEnd(1)) = {<<1, STDOUT_FILENO>>}
    /\ Holders(xv, ReadEnd(1)) = {<<2, STDIN_FILENO>>}

\* ------------------------------------------------------------------- C32
\* What wait_for_children counts as a failed child.
ChildFailed(res) ==
    \/ res = WaitFailed
    \/ res[1] = "signaled"
    \/ res[1] = "exited" /\ res[2] # 0

\* C32: when main returns, waitpid was called for each of the cmd_count
\* children, whatever the earlier ones gave, and the status returned is
\* non-zero exactly when a child ended with a non-zero status, was killed
\* by a signal or could not be waited for; exit_status, once non-zero, stays
\* non-zero.
C32_ExitStatus ==
    /\ [](xv.pc = "returned"
             => /\ \A c \in 0..(xv.cmd_count - 1) :
                      /\ xv.waited[c] # NoWait
                      /\ xv.waited[c] # WaitFailed
                            => xv.waited[c] = xv.child[c].wstatus
                /\ xv.status # 0
                      <=> \E c \in 0..(xv.cmd_count - 1) : ChildFailed(xv.waited[c]))
    /\ [][xv.exit_status # 0 => xv'.exit_status # 0]_vars

\* Three commands: the first ended with status 1, the two after it with
\* success, all three were waited for, and main returned 1.
C32_Witness ==
    /\ xv.pc = "returned"
    /\ xv.cmd_count = 3
    /\ xv.waited = [c \in Cmds |-> IF c = 0 THEN Exited(1) ELSE Exited(0)]
    /\ xv.status = EXIT_FAILURE


\* ----------------------------- mmake (mmake.c, build.c, utils.c, options.c)
\* Latest modification time a file has when mmake starts.
MaxMtime == 2

\* Seconds the clock can advance while mmake runs.
MaxTicks == 1

\* File and target names.
Names == {"a", "b", "c"}

\* makefile_rule's NULL: no rule has the empty target.
NoRule == [target |-> "", prereq |-> <<>>, cmd |-> <<>>]

\* The makefiles parse_makefile has produced: rules in file order.
\*   1: a depends on b and c, b depends on c, c is a source file;
\*   2: a depends on b; b has no prerequisite and no command;
\*   3: no rule at all.
Makefiles ==
    { << [target |-> "a", prereq |-> <<"b", "c">>, cmd |-> <<"cc", "a">>],
         [target |-> "b", prereq |-> <<"c">>, cmd |-> <<"cc", "b">>] >>,
      << [target |-> "a", prereq |-> <<"b">>, cmd |-> <<"cc", "a">>],
         [target |-> "b", prereq |-> <<>>, cmd |-> <<>>] >>,
      << >> }

\* argv[optind..]: the targets named on the command line.
TargetLists == {<<>>, <<"b", "a">>}

\* makefile_rule: the rule of a target, or NULL.
MakefileRule(make, target_name) ==
    IF \E k \in 1..Len(make) : make[k].target = target_name
    THEN make[CHOOSE k \in 1..Len(make) :
                 /\ make[k].target = target_name
                 /\ \A j \in 1..(k - 1) : make[j].target # target_name]
    ELSE NoRule

\* makefile_default_target: the target of the first rule, or NULL ("").
MakefileDefaultTarget(make) == IF make = <<>> THEN "" ELSE make[1].target

RulePrereq(r) == r.prereq

RuleCmd(r) == r.cmd

\* A path as stat sees it.
NoFile == [exists |-> FALSE, mtime |-> 0]

FileStates == {NoFile} \cup {[exists |-> TRUE, mtime |-> m] : m \in 0..MaxMtime}

\* file_exists: stat succeeds.
FileExists(files, path) == files[path].exists

\* get_mod_time: st_mtime, or 0 when stat fails.
GetModTime(files, path) ==
    IF ~files[path].exists THEN 0 ELSE files[path].mtime

Returns(v) == <<"return", v>>

Exits(code) == <<"exit", code>>

\* needs_build, the loop over the prerequisites from the k-th on.
RECURSIVE NeedsBuildScan(_, _, _, _)
NeedsBuildScan(files, prereqs, k, target_time) ==
    IF k > Len(prereqs) THEN Returns(0)
    ELSE IF GetModTime(files, prereqs[k]) = 0 THEN Exits(EXIT_FAILURE)
    ELSE IF GetModTime(files, prereqs[k]) > target_time THEN Returns(1)
    ELSE NeedsBuildScan(files, prereqs, k + 1, target_time)

\* needs_build: 1, 0, or exit(EXIT_FAILURE) on a prerequisite without a
\* modification time.
NeedsBuild(make, target_name, options, files) ==
    IF options.force_build THEN Returns(1)
    ELSE IF GetModTime(files, target_name) = 0 THEN Returns(1)
    ELSE IF MakefileRule(make, target_name) = NoRule THEN Returns(0)
    ELSE NeedsBuildScan(files, RulePrereq(MakefileRule(make, target_name)), 1,
                        GetModTime(files, target_name))

\* A call of process_target: its argument, its position, the index of the
\* prerequisite build_prerequisites stands at, and the length of the trace
\* when the call was made.
Frame(target_name, start) ==
    [target |-> target_name, pc |-> "enter", p |-> 1, start |-> start]

\* exit(code).
MmakeExit(m, code) == [m EXCEPT !.pc = "exited", !.status = code, !.stack = <<>>]

\* process_target returns v to its caller: build_prerequisites or
\* build_targets.
Return(m, v) ==
    LET rest == SubSeq(m.stack, 1, Len(m.stack) - 1)
    IN  [m EXCEPT !.stack = IF rest = <<>> THEN rest
                            ELSE [rest EXCEPT ![Len(rest)].pc = "prereq_ret"],
                  !.pc = IF rest = <<>> THEN "ret" ELSE "call",
                  !.ret = v,
                  !.trace = Append(@, <<IF v = 0 THEN "done" ELSE "fail",
                                        m.stack[Len(m.stack)].target,
                                        Len(m.stack)>>)]

\* main after parse_arguments and load_makefile.
MakeInit ==
    /\ stat_fail = {}
    /\ read_fail = {}
    /\ opts = <<>>
    /\ args = <<>>
    /\ mainpc = "off"
    /\ MduStart
    /\ cv = CvOff
    /\ qv = QvOff
    /\ xv = XvOff
    /\ mv \in {[pc |-> "build_targets", make |-> mk,
                options |-> [force_build |-> fb, silent |-> si,
                             targets |-> tl, target_count |-> Len(tl)],
                i |-> 0, stack |-> <<>>, ret |-> 0, files |-> fs,
                now |-> MaxMtime, trace |-> <<>>, printed |-> <<>>,
                status |-> -1] :
                  mk \in Makefiles, fb \in BOOLEAN, si \in BOOLEAN,
                  tl \in TargetLists, fs \in [Names -> FileStates]}

Top == mv.stack[Len(mv.stack)]

\* build_targets: without a target on the command line the default target
\* is built; a makefile without one ends the program.
BuildTargets ==
    /\ mv.pc = "build_targets"
    /\ mv' = IF mv.options.target_count # 0 THEN [mv EXCEPT !.pc = "loop"]
             ELSE IF MakefileDefaultTarget(mv.make) = ""
                  THEN MmakeExit(mv, EXIT_FAILURE)
                  ELSE [mv EXCEPT !.pc = "loop",
                                  !.options.targets =
                                      <<MakefileDefaultTarget(mv.make)>>,
                                  !.options.target_count = 1]
    /\ UNCHANGED <<envvars, mainvars, data, wvars, outvars, cv, qv, xv>>

\* build_targets: process_target(options->targets[i]) is called.
BuildTargetsCall ==
    /\ mv.pc = "loop"
    /\ mv.i < mv.options.target_count
    /\ mv' = [mv EXCEPT !.pc = "call",
                        !.stack = <<Frame(mv.options.targets[mv.i + 1],
                                          Len(mv.trace))>>]
    /\ UNCHANGED <<envvars, mainvars, data, wvars, outvars, cv, qv, xv>>

\* build_targets: a failed target ends the program, otherwise the next one.
BuildTargetsCheck ==
    /\ mv.pc = "ret"
    /\ mv' = IF mv.ret # 0 THEN MmakeExit(mv, EXIT_FAILURE)
             ELSE [mv EXCEPT !.pc = "loop", !.i = @ + 1]
    /\ UNCHANGED <<envvars, mainvars, data, wvars, outvars, cv, qv, xv>>

\* main: all targets processed, clean_up and return EXIT_SUCCESS.
MmakeReturn ==
    /\ mv.pc = "loop"
    /\ mv.i >= mv.options.target_count
    /\ mv' = [mv EXCEPT !.pc = "returned", !.status = EXIT_SUCCESS]
    /\ UNCHANGED <<envvars, mainvars, data, wvars, outvars, cv, qv, xv>>

\* process_target, up to the call of build_prerequisites: a file without a
\* rule is accepted, a name without rule and file ends the program.
\* (ProcessTargetSkipsPrerequisites goes to the decision at once.)
ProcessTargetSkipsPrerequisites ==
    /\ mv.pc = "call"
    /\ Top.pc = "enter"
    /\ mv' = IF MakefileRule(mv.make, Top.target) = NoRule
             THEN IF FileExists(mv.files, Top.target) THEN Return(mv, 0)
                  ELSE MmakeExit(mv, EXIT_FAILURE)
             ELSE [mv EXCEPT !.stack[Len(mv.stack)].pc = "needs_build"]
    /\ UNCHANGED <<envvars, mainvars, data, wvars, outvars, cv, qv, xv>>

ProcessTarget ==
    /\ mv.pc = "call"
    /\ Top.pc = "enter"
    /\ mv' = IF MakefileRule(mv.make, Top.target) = NoRule
             THEN IF FileExists(mv.files, Top.target) THEN Return(mv, 0)
                  ELSE MmakeExit(mv, EXIT_FAILURE)
             ELSE [mv EXCEPT !.stack[Len(mv.stack)].pc = "prereqs"]
    /\ UNCHANGED <<envvars, mainvars, data, wvars, outvars, cv, qv, xv>>

\* build_prerequisites: process_target is called for the next prerequisite,
\* or the loop is over and 0 is returned.
BuildPrerequisites ==
    /\ mv.pc = "call"
    /\ Top.pc = "prereqs"
    /\ LET prereqs == RulePrereq(MakefileRule(mv.make, Top.target))
       IN  mv' = IF Top.p <= Len(prereqs)
                 THEN [mv EXCEPT !.stack = Append(@, Frame(prereqs[Top.p],
                                                           Len(mv.trace)))]
                 ELSE [mv EXCEPT !.stack[Len(mv.stack)].pc = "needs_build"]
    /\ UNCHANGED <<envvars, mainvars, data, wvars, outvars, cv, qv, xv>>

\* build_prerequisites: a failed prerequisite makes it return -1, and
\* process_target with it; otherwise the next prerequisite.
BuildPrerequisitesCheck ==
    /\ mv.pc = "call"
    /\ Top.pc = "prereq_ret"
    /\ mv' = IF mv.ret # 0 THEN Return(mv, -1)
             ELSE [mv EXCEPT !.stack[Len(mv.stack)].pc = "prereqs",
                             !.stack[Len(mv.stack)].p = @ + 1]
    /\ UNCHANGED <<envvars, mainvars, data, wvars, outvars, cv, qv, xv>>

\* process_target from needs_build to the call of execute_command: the
\* decision, the check for a command, the echo of the command.
Decide ==
    /\ mv.pc = "call"
    /\ Top.pc = "needs_build"
    /\ LET build == NeedsBuild(mv.make, Top.target, mv.options, mv.files)
           cmd == RuleCmd(MakefileRule(mv.make, Top.target))
       IN  mv' = IF build[1] = "exit" THEN MmakeExit(mv, build[2])
                 ELSE IF build[2] # 1 THEN Return(mv, 0)
                 ELSE IF cmd = <<>> THEN MmakeExit(mv, EXIT_FAILURE)
                 ELSE [mv EXCEPT !.stack[Len(mv.stack)].pc = "execute",
                                 !.printed = IF mv.options.silent THEN @
                                             ELSE Append(@, cmd)]
    /\ UNCHANGED <<envvars, mainvars, data, wvars, outvars, cv, qv, xv>>

\* The clock when a command ends: the same second or a later one.
Clock == {n \in {mv.now, mv.now + 1} : n <= MaxMtime + MaxTicks}

\* What a command that ran does to the file named as its target: nothing,
\* or the file is written at time n.
Written(files, target_name, n) ==
    {files, [files EXCEPT ![target_name] = [exists |-> TRUE, mtime |-> n]]}

\* execute_command: the child ends with status 0; process_target returns 0.
ExecuteCommand ==
    /\ mv.pc = "call"
    /\ Top.pc = "execute"
    /\ \E n \in Clock :
       \E fs \in Written(mv.files, Top.target, n) :
          mv' = Return([mv EXCEPT !.files = fs, !.now = n,
                                  !.trace = Append(@, <<"run", Top.target,
                                                        Len(mv.stack)>>)],
                       0)
    /\ UNCHANGED <<envvars, mainvars, data, wvars, outvars, cv, qv, xv>>

\* execute_command: the child ends with another status or by a signal;
\* exit(EXIT_FAILURE).
ExecuteCommandFails ==
    /\ mv.pc = "call"
    /\ Top.pc = "execute"
    /\ \E n \in Clock :
       \E fs \in Written(mv.files, Top.target, n) :
          mv' = MmakeExit([mv EXCEPT !.files = fs, !.now = n,
                                     !.trace = Append(@, <<"run", Top.target,
                                                           Len(mv.stack)>>)],
                          EXIT_FAILURE)
    /\ UNCHANGED <<envvars, mainvars, data, wvars, outvars, cv, qv, xv>>

\* execute_command: fork fails; -1 is returned, and by process_target too.
ExecuteCommandNoFork ==
    /\ mv.pc = "call"
    /\ Top.pc = "execute"
    /\ mv' = Return(mv, -1)
    /\ UNCHANGED <<envvars, mainvars, data, wvars, outvars, cv, qv, xv>>

\* execute_command: waitpid fails after the fork; -1 is returned.
ExecuteCommandNoWait ==
    /\ mv.pc = "call"
    /\ Top.pc = "execute"
    /\ mv' = Return([mv EXCEPT !.trace = Append(@, <<"run", Top.target,
                                                     Len(mv.stack)>>)],
                    -1)
    /\ UNCHANGED <<envvars, mainvars, data, wvars, outvars, cv, qv, xv>>

MakeNext ==
    \/ BuildTargets
    \/ BuildTargetsCall
    \/ BuildTargetsCheck
    \/ MmakeReturn
    \/ ProcessTarget
    \/ BuildPrerequisites
    \/ BuildPrerequisitesCheck
    \/ Decide
    \/ ExecuteCommand
    \/ ExecuteCommandFails
    \/ ExecuteCommandNoFork
    \/ ExecuteCommandNoWait

MakeSpec == MakeInit /\ [][MakeNext]_vars


\* ------------------------------------------------------------------- C33
\* The targets for which process_target, called by the call at depth d since
\* the trace had length start, has returned 0, in order.
DoneBelow(d, start) ==
    LET IsDone(e) == e[1] = "done" /\ e[3] = d + 1
        sel == SelectSeq(SubSeq(mv.trace, start + 1, Len(mv.trace)), IsDone)
    IN  [k \in 1..Len(sel) |-> sel[k][2]]

\* The positions of the trace at which the command of target_name ran.
RunsOf(target_name) ==
    {k \in 1..Len(mv.trace) : mv.trace[k][1] = "run" /\ mv.trace[k][2] = target_name}

PrereqSet(target_name) ==
    {RulePrereq(MakefileRule(mv.make, target_name))[k] :
        k \in 1..Len(RulePrereq(MakefileRule(mv.make, target_name)))}

\* C33: a call of process_target for a target with a rule that stands at
\* its decision or at its command has processed all prerequisites of the
\* rule with success, in the rule's order, and one that stands in the loop
\* has processed those before the current one; a command of a prerequisite
\* that runs at all has run before the first command of a target depending
\* on it; and after a call of process_target has failed no command runs.
C33_DependencyOrder ==
    /\ \A d \in 1..Len(mv.stack) :
          LET f == mv.stack[d]
              prereqs == RulePrereq(MakefileRule(mv.make, f.target))
          IN  /\ f.pc \in {"needs_build", "execute"}
                    => DoneBelow(d, f.start) = prereqs
              /\ f.pc = "prereqs"
                    => /\ f.p <= Len(prereqs) + 1
                       /\ DoneBelow(d, f.start) = SubSeq(prereqs, 1, f.p - 1)
    /\ \A k \in 1..Len(mv.trace) :
          mv.trace[k][1] = "run"
             => /\ \A q \in PrereqSet(mv.trace[k][2]) :
                      RunsOf(q) # {} => \E j \in RunsOf(q) : j < k
                /\ \A j \in 1..(k - 1) : mv.trace[j][1] # "fail"

\* The first makefile, built from scratch for its default target: c is
\* accepted, the command of b runs, then the command of a, and mmake
\* returns.
C33_Witness ==
    /\ mv.pc = "returned"
    /\ MakefileDefaultTarget(mv.make) = "a"
    /\ PrereqSet("a") = {"b", "c"}
    /\ mv.trace = << <<"done", "c", 3>>, <<"run", "b", 2>>, <<"done", "b", 2>>,
                     <<"done", "c", 2>>, <<"run", "a", 1>>, <<"done", "a", 1>> >>

\* ------------------------------------------------------------------- C34
\* A step of process_target from needs_build on, for a rule with a command.
DecisionStep ==
    /\ mv.pc = "call"
    /\ Top.pc = "needs_build"
    /\ RuleCmd(MakefileRule(mv.make, Top.target)) # <<>>
    /\ mv' # mv

\* The step has led to the call of execute_command.
CommandCalled ==
    /\ mv'.pc = "call"
    /\ mv'.stack[Len(mv'.stack)].pc = "execute"

\* A prerequisite of the rule is a file strictly newer than the target file.
NewerPrerequisite(target_name) ==
    \E q \in PrereqSet(target_name) :
       /\ mv.files[q].exists
       /\ mv.files[target_name].exists
       /\ mv.files[q].mtime > mv.files[target_name].mtime

\* C34: the command of a target with a rule is executed exactly when the
\* force option is set, the target file does not exist, or a prerequisite
\* is strictly newer than the target; a target without a rule that exists
\* as a file is accepted without a command being run.
C34_RebuildDecision ==
    /\ [][DecisionStep
             => (CommandCalled <=> \/ mv.options.force_build
                                   \/ ~mv.files[Top.target].exists
                                   \/ NewerPrerequisite(Top.target))]_vars
    /\ [][(/\ mv.pc = "call"
           /\ Top.pc = "enter"
           /\ MakefileRule(mv.make, Top.target) = NoRule
           /\ mv.files[Top.target].exists
           /\ mv' # mv)
             => /\ mv'.ret = 0
                /\ mv'.trace = Append(mv.trace, <<"done", Top.target, Len(mv.stack)>>)
                /\ mv'.files = mv.files]_vars


\* ------------------------------------------------------------------- C35
\* The nodes found by following next from node n, at most fuel of them.
RECURSIVE NodesFrom(_, _, _)
NodesFrom(heap, n, fuel) ==
    IF n = 0 \/ fuel = 0 THEN <<>>
    ELSE <<n>> \o NodesFrom(heap, heap[n].next, fuel - 1)

ListNodes(q) == NodesFrom(q.heap, q.queue_head, MaxQueueOps + 1)

\* C35: after any calls of enqueue and dequeue, queue_head is NULL exactly
\* when queue_tail is; the list from queue_head is made of distinct
\* allocated nodes and ends, and its last node is queue_tail; and an enqueue
\* that follows the dequeue which emptied the queue makes its new node
\* head and tail, with no successor.
C35_QueueStructure ==
    /\ [](qv.pc = "on"
             => /\ (qv.queue_head = 0 <=> qv.queue_tail = 0)
                /\ Len(ListNodes(qv)) <= MaxQueueOps
                /\ \A j, k \in 1..Len(ListNodes(qv)) :
                      /\ qv.heap[ListNodes(qv)[j]].live
                      /\ ListNodes(qv)[j] = ListNodes(qv)[k] => j = k
                /\ qv.queue_head # 0
                      => /\ ListNodes(qv)[Len(ListNodes(qv))] = qv.queue_tail
                         /\ qv.heap[qv.queue_tail].next = 0)
    /\ [][(/\ qv.pc = "on"
           /\ qv.last = "dequeue"
           /\ qv.ret # NULL
           /\ qv.queue_head = 0
           /\ qv'.ops # qv.ops
           /\ qv'.last = "enqueue")
             => /\ qv'.queue_head # 0
                /\ qv'.queue_head = qv'.queue_tail
                /\ ~qv.heap[qv'.queue_head].live
                /\ ListNodes(qv') = <<qv'.queue_head>>]_vars

\* "p" went in and out, which emptied the queue; then "q" and "p" went in:
\* two nodes, the first is the head, the second the tail.
C35_Witness ==
    /\ qv.pc = "on"
    /\ qv.ops = 4
    /\ qv.pushed = <<<<"p">>, <<"q">>, <<"p">>>>
    /\ qv.popped = <<<<"p">>>>
    /\ Len(ListNodes(qv)) = 2
    /\ ListNodes(qv)[1] = qv.queue_head
    /\ ListNodes(qv)[2] = qv.queue_tail
    /\ qv.queue_head # qv.queue_tail

====
